---- MODULE Spec2Model ----
(***************************************************************************)
(* Model of the ASA-Automates Deliveroo agent: the belief map and the A*   *)
(* path finder (utils/utils.js, belief/world-map.js), the intention queue  *)
(* of the agent with its sort policy and loop (agent/agent.js), intentions *)
(* and plans with cancellation (agent/intention.js, planner/plans), and    *)
(* the leader's hand-to-hand role election.                                *)
(***************************************************************************)
EXTENDS Integers, Sequences, FiniteSets, Bags, TLC

VARIABLES
    \* ---- WorldMap (belief/world-map.js) ----
    width,              \* #width
    height,             \* #height
    map,                \* #map: tile coordinate -> TileType
    depotTiles,         \* #depotTiles: the tiles onMap has pushed, in order
    spawnTiles,         \* #spawnTiles
    adversaryAgents,    \* #adversaryAgents: the sensed adversaries [id, x, y, timestamp]
    followerPosition,   \* #followerPosition: <<x, y>>, or NoPosition while unset
    \* ---- one findPath query (utils/utils.js) ----
    startPosition,
    endPosition,
    pathResult,         \* [called, found, path]
    \* ---- Agent (agent/agent.js) ----
    dualAgent,          \* Config.DUAL_AGENT
    options,            \* the predicates option generation can come up with
    agentXY,            \* #x, #y: <<x, y>>, NoPosition until the first onYou
    carriedParcel,      \* #carriedParcel
    initialized,        \* #initialized
    hand2HandMode,      \* #hand2HandMode
    intentionQueue,     \* #intentionQueue: sequence of intentions [id, predicate]
    intentionsCreated,  \* the Intention objects push has built, a bag of predicates
    started,            \* the intentions whose #started flag is set
    sorts,              \* the sortIntentionQueue calls in flight, in call order
    loopIntention,      \* the intention loop() is awaiting, or NoIntention
    \* ---- one intention and its plans (agent/intention.js, planner/plans) ----
    intentions,         \* the Intention objects: 1 the intention, 2 its sub-intention
    rpcs,               \* the emitMove / emitPickup / emitPutdown calls made so far
    calls,              \* what the achieve() calls on intention 1 have returned
    \* ---- the leader's role election (agent/agent.js message handlers) ----
    elections,          \* #handleCompanionPositionMessage calls awaiting emitSay
    said,               \* the hand2hand behaviours sent to the companion, in order
    tileMessages,       \* the delivery_tile{set} messages of the companion: [tile, arrived]
    \* ---- the agent's role in the team and the follower's side ----
    isLeader,           \* #isLeader
    leaderPosition,     \* WorldMap.#leaderPosition (set in the follower's process)
    depot,              \* #depot, the depot tile of a DELIVER agent
    crashed,            \* a handler threw: the unhandled rejection ends the process
    \* ---- the sensed world and option generation ----
    now,                \* Date.now(), in milliseconds
    parcels,            \* WorldMap.#parcels: [id, x, y, reward, timestamp, carriedBy]
    parcelsToIgnore,    \* #parcelsToIgnore
    carryingParcel,     \* #carryingParcel
    deliveryTile,       \* #deliveryTile, NoPosition for null
    tilesToAvoid,       \* TILES_TO_AVOID of options-generation.js
    generations,        \* the generateOptions calls waiting for a timer or an answer
    lastRead,           \* the latest read of map.parcels by an option generation
    eventsSensed        \* the sensing events whose map update has completed

mapVars   ==
    <<width, height, map, depotTiles, spawnTiles, adversaryAgents, followerPosition>>
pathVars  == <<startPosition, endPosition, pathResult>>
agentVars == <<dualAgent, options, agentXY, carriedParcel, initialized, hand2HandMode>>
queueVars == <<intentionQueue, intentionsCreated, started, sorts, loopIntention>>
planVars  == <<intentions, rpcs, calls>>
electionVars == <<elections, said>>
teamVars  == <<isLeader, leaderPosition, depot, crashed>>
beliefVars ==
    <<now, parcels, parcelsToIgnore, carryingParcel, deliveryTile, tilesToAvoid,
      generations, lastRead, eventsSensed>>
vars      ==
    <<mapVars, pathVars, agentVars, queueVars, planVars, electionVars, tileMessages, teamVars,
      beliefVars>>

\* The variables no action of the queue specification changes.
queueFrame == <<mapVars, pathVars, planVars, electionVars, tileMessages, teamVars, beliefVars>>

----------------------------------------------------------------------------
(* Tile types, belief/map-entities/tile-type.js *)
DEPOT == "depot"
SPAWN == "spawn"
WALL  == "wall"
OTHERTILE == "other"   \* TileType.OTHER (OTHER is a reserved word)

\* The value of an unset coordinate pair (Agent: #x = -1, #y = -1).
NoPosition == <<-1, -1>>

\* All tile coordinates of a w x h map.
Coordinates(w, h) == (0 .. w - 1) \X (0 .. h - 1)

\* The x and y loops of the onMap handler visit the tiles row by row.
rowByRow(w, h) == [k \in 1 .. w * h |-> <<(k - 1) % w, (k - 1) \div w>>]

\* onMap: the tiles pushed to spawnTiles or to deoptTiles, in the order pushed.
tilesPushed(w, h, tiles, type) ==
    SelectSeq(rowByRow(w, h), LAMBDA t : tiles[t] = type)

\* setSpawnTiles(spawnTiles).setDepotTiles(deoptTiles) at the end of onMap.
onMapLists ==
    /\ spawnTiles = tilesPushed(width, height, map, SPAWN)
    /\ depotTiles = tilesPushed(width, height, map, DEPOT)

Abs(n) == IF n < 0 THEN -n ELSE n

----------------------------------------------------------------------------
(* WorldMap.getWalkableTiles(withAgents = false): depot, spawn and other    *)
(* tiles, minus the tiles of sensed adversaries and the follower's tile.    *)
isWalkable(t) ==
    /\ t[1] >= 0 /\ t[1] < width /\ t[2] >= 0 /\ t[2] < height
    /\ map[t] \in {DEPOT, SPAWN, OTHERTILE}
    /\ \A k \in 1 .. Len(adversaryAgents) :
           ~(adversaryAgents[k].y = t[2] /\ adversaryAgents[k].x = t[1])
    /\ (followerPosition # NoPosition => t # followerPosition)

getWalkableTiles == {t \in DOMAIN map : isWalkable(t)}

\* WorldMap.getWalkableTiles(withAgents): with withAgents the two filters on
\* the sensed adversaries and on #followerPosition are both skipped.
getWalkableTilesWith(withAgents) ==
    IF withAgents
    THEN {t \in DOMAIN map : map[t] \in {DEPOT, SPAWN, OTHERTILE}}
    ELSE getWalkableTiles

(* WorldMap.getNeighborTiles(tile, walkable = true): the candidates in the  *)
(* order left, right, y-1, y+1, kept when inside the map and walkable.      *)
getNeighborTilesUnfiltered(tile) ==
    LET candidates == << <<tile[1] - 1, tile[2]>>, <<tile[1] + 1, tile[2]>>,
                         <<tile[1], tile[2] - 1>>, <<tile[1], tile[2] + 1>> >>
    IN  SelectSeq(candidates, LAMBDA t :
            t[1] >= 0 /\ t[1] < width /\ t[2] >= 0 /\ t[2] < height)

\* Mutant: the walkable filter is left out.
getNeighborTilesAnyTile(tile) == getNeighborTilesUnfiltered(tile)

\* Mutant: the neighbour at y + 1 is forgotten.
getNeighborTilesNoUp(tile) ==
    SelectSeq(getNeighborTilesUnfiltered(tile),
              LAMBDA t : isWalkable(t) /\ t[2] <= tile[2])

getNeighborTiles(tile) ==
    SelectSeq(getNeighborTilesUnfiltered(tile), LAMBDA t : isWalkable(t))

----------------------------------------------------------------------------
(* The open set of findPath: new Heap(customComparator) of heap-js, a       *)
(* binary min-heap kept in an array and ordered by the fScore the nodes     *)
(* have when they are compared.  Nodes are named <<x, y, k>>: k = 0 is the  *)
(* start object pushed at utils.js:73, k = 1 the node of the tile in the    *)
(* `nodes` map.                                                             *)
Swap(h, i, j) == [h EXCEPT ![i] = h[j], ![j] = h[i]]

RECURSIVE sortNodeUp(_, _, _)
sortNodeUp(h, i, f) ==
    IF i > 1 /\ f[h[i \div 2]] > f[h[i]]
    THEN sortNodeUp(Swap(h, i, i \div 2), i \div 2, f)
    ELSE h

RECURSIVE sortNodeDown(_, _, _)
sortNodeDown(h, i, f) ==
    LET l == 2 * i
        r == 2 * i + 1
        best == IF r <= Len(h) /\ f[h[r]] < f[h[l]] THEN r ELSE l
    IN  IF l <= Len(h) /\ f[h[i]] > f[h[best]]
        THEN sortNodeDown(Swap(h, i, best), best, f)
        ELSE h

HeapAdd(h, node, f) == sortNodeUp(Append(h, node), Len(h) + 1, f)

HeapContains(h, node) == \E i \in 1 .. Len(h) : h[i] = node

\* Heap.pop(): the root; the last element takes its place and sinks.
HeapPeek(h) == h[1]
HeapAfterPop(h, f) ==
    IF Len(h) = 1 THEN <<>>
    ELSE sortNodeDown([SubSeq(h, 1, Len(h) - 1) EXCEPT ![1] = h[Len(h)]], 1, f)

----------------------------------------------------------------------------
(* findPath(startPosition, endPosition), utils/utils.js *)
heuristic(a, b) == Abs(a[1] - b[1]) + Abs(a[2] - b[2])

NodePosition(node) == <<node[1], node[2]>>

NoPath == [found |-> FALSE, path |-> <<>>]

RECURSIVE Reverse(_)
Reverse(s) == IF s = <<>> THEN <<>> ELSE Append(Reverse(Tail(s)), Head(s))

\* Mutant: the start node, which has no cameFrom entry, is listed too.
RECURSIVE reconstructPathWithStart(_, _)
reconstructPathWithStart(node, cameFrom) ==
    <<NodePosition(node)>> \o
        (IF node \in DOMAIN cameFrom
         THEN reconstructPathWithStart(cameFrom[node], cameFrom)
         ELSE <<>>)

\* utils.js:92-102: walk cameFrom back from the goal node, then reverse.
RECURSIVE reconstructPath(_, _)
reconstructPath(node, cameFrom) ==
    IF node \in DOMAIN cameFrom
    THEN <<NodePosition(node)>> \o reconstructPath(cameFrom[node], cameFrom)
    ELSE <<>>

\* utils.js:107-132, one neighbour of the node `current`.
\* st = [heap, gScore, fScore, cameFrom]; a node outside DOMAIN gScore still
\* has gScore = fScore = Infinity.
relaxNeighbor(st, current, t, goal) ==
    LET neighbor == <<t[1], t[2], 1>>
        tentativeGScore == st.gScore[current] + 1
    IN  IF neighbor \in DOMAIN st.gScore /\ ~(tentativeGScore < st.gScore[neighbor])
        THEN st
        ELSE LET g2 == (neighbor :> tentativeGScore) @@ st.gScore
                 f2 == (neighbor :> tentativeGScore + heuristic(t, goal)) @@ st.fScore
             IN  [heap     |-> IF HeapContains(st.heap, neighbor)
                               THEN st.heap
                               ELSE HeapAdd(st.heap, neighbor, f2),
                  gScore   |-> g2,
                  fScore   |-> f2,
                  cameFrom |-> (neighbor :> current) @@ st.cameFrom]

RECURSIVE relaxNeighbors(_, _, _, _)
relaxNeighbors(st, current, neighbors, goal) ==
    IF neighbors = <<>> THEN st
    ELSE relaxNeighbors(relaxNeighbor(st, current, Head(neighbors), goal),
                        current, Tail(neighbors), goal)

\* utils.js:84-133, the main loop.
RECURSIVE searchLoop(_, _)
searchLoop(st, goal) ==
    IF st.heap = <<>> THEN NoPath
    ELSE LET current == HeapPeek(st.heap)
             popped  == [st EXCEPT !.heap = HeapAfterPop(st.heap, st.fScore)]
         IN  IF NodePosition(current) = goal
             THEN [found |-> TRUE,
                   path  |-> Reverse(reconstructPath(current, st.cameFrom))]
             ELSE searchLoop(
                    relaxNeighbors(popped, current,
                                   getNeighborTiles(NodePosition(current)), goal),
                    goal)

findPath(a, b) ==
    IF ~isWalkable(b) THEN NoPath
    ELSE LET start == <<a[1], a[2], 0>>
         IN  searchLoop([heap     |-> <<start>>,
                         gScore   |-> (start :> 0),
                         fScore   |-> (start :> heuristic(a, b)),
                         cameFrom |-> <<>>], b)

----------------------------------------------------------------------------
(* The Agent as its constructor leaves it (agent.js, field initialisers and  *)
(* constructor): no position yet, nothing carried, not initialized, mode     *)
(* NONE, an empty intention queue, no sort in flight, loop() idle.           *)
NONE    == "none"       \* Hand2HandBehaviour.NONE
GATHER  == "gather"     \* Hand2HandBehaviour.GATHER
DELIVER == "deliver"    \* Hand2HandBehaviour.DELIVER

\* Number of sortIntentionQueue calls that may be in flight together.
MaxSorts == 2

\* An Intention object that has not been constructed yet.
NotCreated ==
    [created |-> FALSE, predicate |-> <<>>, started |-> FALSE, stopped |-> FALSE,
     plan |-> "none", plans |-> 0, planStopped |-> FALSE, pc |-> "new",
     path |-> <<>>, direction |-> "none", result |-> "none"]

NoIntention == [id |-> 0, predicate |-> <<>>, firstRun |-> FALSE, pickedUp |-> FALSE]

\* No option generation has read map.parcels yet.
NoRead == [mode |-> "none", event |-> 0, updates |-> 0]

AgentConstructed ==
    /\ agentXY = NoPosition
    /\ carriedParcel = 0
    /\ initialized = FALSE
    /\ hand2HandMode = NONE
    /\ intentionQueue = <<>>
    /\ intentionsCreated = <<>>
    /\ started = {}
    /\ sorts = <<>>
    /\ loopIntention = NoIntention
    /\ intentions = [i \in {1, 2} |-> NotCreated]
    /\ rpcs = <<>>
    /\ calls = <<>>
    /\ elections = <<>>
    /\ said = <<>>
    /\ tileMessages = <<>>
    /\ leaderPosition = NoPosition
    /\ depot = NoPosition
    /\ crashed = FALSE
    /\ now = 0
    /\ parcels = <<>>
    /\ parcelsToIgnore = <<>>
    /\ carryingParcel = FALSE
    /\ deliveryTile = NoPosition
    /\ tilesToAvoid = <<>>
    /\ generations = <<>>
    /\ lastRead = NoRead
    /\ eventsSensed = 0

----------------------------------------------------------------------------
(* Specification SpecPath: findPath as a function of the belief map.  The   *)
(* map is one of PathMaps; a query picks any two coordinates of it.         *)

\* The exhaustive family: every PathSide x PathSide map in which at most
\* PathMaxBlocked tiles are blocked, each of them by a wall or by a sensed
\* adversary.
PathSide == 3
PathMaxBlocked == 1

\* Side of the square maps of the scenarios "A* basic" and "A* blocked".
ScenarioSize == 5

MapOf(w, h, walls) ==
    [t \in Coordinates(w, h) |-> IF t \in walls THEN WALL ELSE OTHERTILE]

BlockedSets ==
    {bs \in SUBSET Coordinates(PathSide, PathSide) :
        Cardinality(bs) <= PathMaxBlocked}

SmallMaps ==
    UNION {{[w |-> PathSide, h |-> PathSide,
             tiles |-> MapOf(PathSide, PathSide, walls),
             adversaries |-> blocked \ walls] : walls \in SUBSET blocked} :
           blocked \in BlockedSets}

OpenScenarioMap == MapOf(ScenarioSize, ScenarioSize, {})
BlockedScenarioMap ==
    MapOf(ScenarioSize, ScenarioSize, {<<1, y>> : y \in 0 .. ScenarioSize - 1})

\* A 7 x 6 map with two walls on which the open set goes stale.
StaleHeapMap == MapOf(7, 6, {<<6, 2>>, <<5, 3>>})

PathMaps ==
    SmallMaps
    \cup {[w |-> ScenarioSize, h |-> ScenarioSize, tiles |-> OpenScenarioMap,
           adversaries |-> {}],
          [w |-> ScenarioSize, h |-> ScenarioSize, tiles |-> BlockedScenarioMap,
           adversaries |-> {}],
          [w |-> 7, h |-> 6, tiles |-> StaleHeapMap, adversaries |-> {}]}

NotCalled == [called |-> FALSE, found |-> FALSE, path |-> <<>>]

\* The adversaries of a path map as the list WorldMap keeps of them.
RECURSIVE sensedAt(_)
sensedAt(positions) ==
    IF positions = {} THEN <<>>
    ELSE LET p == CHOOSE q \in positions : TRUE
         IN  <<[id |-> "a" \o ToString(Cardinality(positions)),
                 x |-> p[1], y |-> p[2], timestamp |-> 0]>>
                 \o sensedAt(positions \ {p})

InitPath ==
    /\ \E m \in PathMaps :
            /\ width = m.w /\ height = m.h /\ map = m.tiles
            /\ adversaryAgents = sensedAt(m.adversaries)
    /\ onMapLists
    /\ followerPosition = NoPosition
    /\ startPosition = NoPosition
    /\ endPosition = NoPosition
    /\ pathResult = NotCalled
    /\ dualAgent = FALSE
    /\ options = {}
    /\ isLeader = TRUE
    /\ AgentConstructed

\* A caller awaits findPath(a, b); the awaits inside resolve without leaving
\* the microtask queue once the map is populated, so the query sees one map.
FindPathCall(a, b) ==
    /\ ~pathResult.called
    /\ startPosition' = a
    /\ endPosition' = b
    /\ pathResult' = [called |-> TRUE] @@ findPath(a, b)
    /\ UNCHANGED <<mapVars, agentVars, queueVars, planVars, electionVars, tileMessages, teamVars,
                   beliefVars>>

NextPath == \E a \in DOMAIN map, b \in DOMAIN map : FindPathCall(a, b)

SpecPath == InitPath /\ [][NextPath]_vars

----------------------------------------------------------------------------
(* Reference definitions for the claims about findPath. *)
Adjacent(p, q) == heuristic(p, q) = 1

\* Breadth-first search from a over the walkable tiles: the number of steps
\* of a shortest chain of 4-adjacent walkable tiles from a to b, -1 if none.
RECURSIVE BfsDistance(_, _, _, _)
BfsDistance(frontier, visited, b, d) ==
    IF b \in frontier THEN d
    ELSE IF frontier = {} THEN -1
    ELSE LET next == {t \in getWalkableTiles \ visited :
                        \E s \in frontier : Adjacent(s, t)}
         IN  BfsDistance(next, visited \cup next, b, d + 1)

ShortestDistance(a, b) ==
    IF b \notin getWalkableTiles THEN -1 ELSE BfsDistance({a}, {a}, b, 0)

PathShape(a, b, p) ==
    /\ Len(p) >= 1
    /\ Adjacent(p[1], a)
    /\ p[Len(p)] = b
    /\ \A i \in 2 .. Len(p) : Adjacent(p[i], p[i - 1])
    /\ \A i \in 1 .. Len(p) : p[i] \in getWalkableTiles

\* C7 as stated: findPath(a, b) is null or a list whose first tile is
\* 4-adjacent to a, whose last tile is b, whose consecutive tiles are
\* 4-adjacent and whose tiles are all walkable.  (Fails for a = b: the result
\* is the empty list, which has no first and no last tile.)
C7_PathShapeAlways ==
    (pathResult.called /\ pathResult.found)
        => PathShape(startPosition, endPosition, pathResult.path)

\* C7 amended: findPath(a, b) is null, or the empty list when a = b, or
\* (a # b) a list from a neighbour of a to b over 4-adjacent walkable tiles.
C7_PathShape ==
    (pathResult.called /\ pathResult.found)
        => IF startPosition = endPosition
           THEN pathResult.path = <<>>
           ELSE PathShape(startPosition, endPosition, pathResult.path)

\* A path that had to go around a wall.
C7_Witness ==
    /\ pathResult.called /\ pathResult.found
    /\ Len(pathResult.path) > heuristic(startPosition, endPosition)

C38_SamePositionEmptyPath ==
    (pathResult.called /\ startPosition = endPosition)
        => (pathResult.found /\ pathResult.path = <<>>)

\* C38 amended: findPath(a, a) is the empty path when a is a walkable tile,
\* and null when it is not.
C38_SameWalkablePositionEmptyPath ==
    (pathResult.called /\ startPosition = endPosition)
        => IF endPosition \in getWalkableTiles
           THEN pathResult.found /\ pathResult.path = <<>>
           ELSE ~pathResult.found

\* findPath(a, a) was called on a walkable tile next to a blocked one.
C38_Witness ==
    /\ pathResult.called /\ startPosition = endPosition
    /\ endPosition \in getWalkableTiles
    /\ pathResult.found /\ pathResult.path = <<>>
    /\ \E t \in DOMAIN map : Adjacent(t, endPosition) /\ t \notin getWalkableTiles

\* C9: a path returned by findPath is as long as the shortest 4-connected
\* walkable distance from a to b.
C9_PathIsShortest ==
    (pathResult.called /\ pathResult.found)
        => Len(pathResult.path) = ShortestDistance(startPosition, endPosition)

----------------------------------------------------------------------------
(* The intention queue of the Agent: push, sortIntentionQueue and loop().   *)

\* Config.MAX_CARRIED_PARCELS (parseInt(env) || 4); 2 as in the scenario
\* "Carry saturation".
MAX_CARRIED_PARCELS == 2

\* Cap on #carriedParcel, which the code only ever increments.
CarriedBound == 2

\* Cap on the number of Intention objects push builds in one behaviour.
MaxIntentions == 3

\* An 8 x 8 map whose walkable tiles are the corridor (0,0)..(6,0),
\* (6,0)..(6,5), (5,5), the isolated tile (4,4) and the tiles (3,3), (7,7).
CorridorTiles ==
    {<<x, 0>> : x \in 0 .. 6} \cup {<<6, y>> : y \in 0 .. 5}
        \cup {<<5, 5>>, <<4, 4>>, <<3, 3>>, <<7, 7>>}
CorridorMap == MapOf(8, 8, Coordinates(8, 8) \ CorridorTiles)

\* The predicates option generation pushes: in one behaviour the parcels
\* and tiles it works with are one of these sets.
OptionSets ==
    {{<<"go_pick_up", 3, 0, "P4">>, <<"go_pick_up", 1, 0, "P2">>, <<"go_drop_off", 3, 3>>},
     {<<"go_pick_up", 1, 0, "P2">>, <<"go_drop_off", 3, 3>>, <<"go_drop_off", 0, 0>>},
     {<<"go_pick_up", 3, 0, "P4">>, <<"go_to", 7, 7>>, <<"go_to", 1, 1>>}}

\* The positions onYou reports.
AgentPositions == {<<0, 0>>, <<4, 0>>}

\* predicate.join(' ')
RECURSIVE join(_)
join(predicate) ==
    IF predicate = <<>> THEN ""
    ELSE IF Len(predicate) = 1 THEN ToString(predicate[1])
    ELSE ToString(predicate[1]) \o " " \o join(Tail(predicate))

\* Mutant: push never finds the predicate in the queue.
alreadyInQueueNever(queue, predicate) == FALSE

\* agent.js push: intentionQueue.find(i => i.predicate.join(' ') === predicate.join(' '))
alreadyInQueue(queue, predicate) ==
    \E i \in 1 .. Len(queue) : join(queue[i].predicate) = join(predicate)

ofKind(queue, kind) == SelectSeq(queue, LAMBDA i : i.predicate[1] = kind)

\* path != null ? path.length : Infinity
Infinity == -1

distanceOf(agentPosition, intention) ==
    LET path == findPath(agentPosition, <<intention.predicate[2], intention.predicate[3]>>)
    IN  IF path.found THEN Len(path.path) ELSE Infinity

\* The distanceMap of sortIntentionQueue: the go_pick_up intentions of the
\* queue, each with its distance from agentPosition.
scorePickUps(queue, agentPosition) ==
    LET pickUps == ofKind(queue, "go_pick_up")
    IN  [k \in 1 .. Len(pickUps) |->
            [intention |-> pickUps[k],
             distance  |-> distanceOf(agentPosition, pickUps[k])]]

\* Mutant: the comparator is b.distance - a.distance.
compareDistanceDescending(a, b) ==
    IF a = Infinity /\ b = Infinity THEN 0
    ELSE IF a = Infinity THEN -1
    ELSE IF b = Infinity THEN 1
    ELSE b - a

\* (a, b) => a.distance - b.distance; Infinity - Infinity is NaN, which sort
\* takes as 0.
compareDistance(a, b) ==
    IF a = Infinity /\ b = Infinity THEN 0
    ELSE IF a = Infinity THEN 1
    ELSE IF b = Infinity THEN -1
    ELSE a - b

\* Array.prototype.sort is stable: an element goes behind every element that
\* does not compare greater than it.
RECURSIVE insertByDistance(_, _)
insertByDistance(sorted, e) ==
    IF sorted = <<>> THEN <<e>>
    ELSE IF compareDistance(Head(sorted).distance, e.distance) <= 0
    THEN <<Head(sorted)>> \o insertByDistance(Tail(sorted), e)
    ELSE <<e>> \o sorted

RECURSIVE sortByDistance(_)
sortByDistance(distanceMap) ==
    IF distanceMap = <<>> THEN <<>>
    ELSE insertByDistance(sortByDistance(SubSeq(distanceMap, 1, Len(distanceMap) - 1)),
                          distanceMap[Len(distanceMap)])

intentionsOf(distanceMap) == [k \in 1 .. Len(distanceMap) |-> distanceMap[k].intention]

firstOf(list) == IF list = <<>> THEN <<>> ELSE <<Head(list)>>

\* Mutant: every drop-off and every go_to of the queue is kept.
rebuildQueueKeepAll(pickUpIntentions, queue) ==
    pickUpIntentions \o ofKind(queue, "go_drop_off") \o ofKind(queue, "go_to")

\* agent.js sortIntentionQueue: the pickups, then the first drop-off of the
\* current queue, then its first go_to.
rebuildQueue(pickUpIntentions, queue) ==
    pickUpIntentions \o firstOf(ofKind(queue, "go_drop_off"))
                     \o firstOf(ofKind(queue, "go_to"))

\* Mutant: the threshold test is > instead of >=.
onlyDropOffsWhenSaturatedStrict(queue, carried) ==
    IF carried > MAX_CARRIED_PARCELS THEN ofKind(queue, "go_drop_off") ELSE queue

\* agent.js sortIntentionQueue, the last statement.
onlyDropOffsWhenSaturated(queue, carried) ==
    IF carried >= MAX_CARRIED_PARCELS THEN ofKind(queue, "go_drop_off") ELSE queue

\* The constructed agent in the corridor map, in dual-agent mode.
Init ==
    /\ width = 8 /\ height = 8 /\ map = CorridorMap
    /\ adversaryAgents = <<>>
    /\ onMapLists
    /\ followerPosition = NoPosition
    /\ startPosition = NoPosition /\ endPosition = NoPosition
    /\ pathResult = NotCalled
    /\ dualAgent = TRUE
    /\ options \in OptionSets
    /\ isLeader = TRUE
    /\ AgentConstructed

\* A continuation that an already resolved promise has queued (a microtask)
\* runs before the event loop takes its next event: while a sort is between
\* getCurrentPosition() and the end of Promise.all, no socket event, timer or
\* setImmediate callback is served.
microtaskPending ==
    \/ \E s \in 1 .. Len(sorts) : sorts[s].pc \in {"snapshot", "scored"}
    \/ \E g \in 1 .. Len(generations) : generations[g].pc = "resume"
    \/ loopIntention # NoIntention /\ calls # <<>> /\ calls[1] \notin {"pending"}

\* client.onYou: the agent learns its position, at connection and after each
\* move of the plan it is executing.
OnYou(position) ==
    /\ ~microtaskPending
    /\ position # agentXY
    /\ agentXY = NoPosition \/ loopIntention.firstRun
    /\ agentXY' = position
    /\ UNCHANGED <<queueFrame, dualAgent, options, carriedParcel,
                   initialized, hand2HandMode, queueVars>>

\* Mutant: the message handlers are registered in single-agent mode too.
onMsgRegisteredAlways == TRUE

\* The constructor registers the message handlers: if ( Config.DUAL_AGENT ).
onMsgRegistered == dualAgent

\* The role election ends (message handlers, dual-agent mode only): the mode
\* is settled and #initialized set.
Initialize(mode) ==
    /\ ~microtaskPending
    /\ onMsgRegistered /\ ~initialized
    /\ initialized' = TRUE
    /\ hand2HandMode' = mode
    /\ UNCHANGED <<queueFrame, dualAgent, options, agentXY, carriedParcel,
                   queueVars>>

\* sortIntentionQueue up to its first await: getCurrentPosition() returns the
\* position at once when it is known, and polls with setImmediate otherwise.
sortCalled ==
    IF agentXY # NoPosition
    THEN [pc |-> "snapshot", agentPosition |-> agentXY, pickUps |-> <<>>]
    ELSE [pc |-> "position", agentPosition |-> NoPosition, pickUps |-> <<>>]

\* new Intention(this, predicate, this.#client).  Two Intention objects are
\* told apart by their predicate and by how many intentions with that
\* predicate were built before.
newIntention(predicate) ==
    [id |-> CopiesIn(predicate, intentionsCreated) + 1, predicate |-> predicate]

\* push(predicate): a predicate already queued is skipped (return null);
\* otherwise a new Intention is appended and sortIntentionQueue is called.
\* The pushes of one generator follow each other with no await in between,
\* so a sort called by an earlier one is still at its first await; a sort
\* past its Promise.all runs on before anything else can push.
pushAccepted(predicate) ==
    /\ \A s \in 1 .. Len(sorts) : sorts[s].pc # "scored"
    /\ ~alreadyInQueue(intentionQueue, predicate)
    /\ Len(sorts) < MaxSorts
    /\ intentionsCreated' = intentionsCreated (+) SetToBag({predicate})
    /\ intentionQueue' = Append(intentionQueue, newIntention(predicate))
    /\ sorts' = Append(sorts, sortCalled)
    /\ UNCHANGED <<queueFrame, agentVars, started, loopIntention>>

Push(predicate) ==
    /\ BagCardinality(intentionsCreated) < MaxIntentions
    /\ pushAccepted(predicate)

\* generateOptions: await agent.sortIntentionQueue() after the pushes; taken
\* here when the sorts of the pushes have returned.
SortIntentionQueue ==
    /\ sorts = <<>>
    /\ sorts' = Append(sorts, sortCalled)
    /\ UNCHANGED <<queueFrame, agentVars, intentionQueue,
                   intentionsCreated, started, loopIntention>>

\* getCurrentPosition() leaves its polling loop once onYou has set #x, #y.
GetCurrentPosition(s) ==
    /\ ~microtaskPending
    /\ sorts[s].pc = "position"
    /\ agentXY # NoPosition
    /\ sorts' = [sorts EXCEPT ![s].pc = "snapshot", ![s].agentPosition = agentXY]
    /\ UNCHANGED <<queueFrame, agentVars, intentionQueue,
                   intentionsCreated, started, loopIntention>>

\* The call resumes with agentPosition: the go_pick_up intentions of the
\* queue as it is now are collected and their paths computed.  What follows
\* once Promise.all has resolved touches none of the agent's fields and is
\* taken here: the sort of the distanceMap and, in dual-agent mode NONE, the
\* emitSay of the ids to the companion (the mode cannot change in between,
\* no message handler runs before the pending continuations).
ScorePickUps(s) ==
    /\ sorts[s].pc = "snapshot"
    /\ sorts' = [sorts EXCEPT
                    ![s].pc = IF dualAgent /\ hand2HandMode = NONE
                              THEN "say" ELSE "scored",
                    ![s].pickUps = intentionsOf(sortByDistance(
                        scorePickUps(intentionQueue, sorts[s].agentPosition)))]
    /\ UNCHANGED <<queueFrame, agentVars, intentionQueue,
                   intentionsCreated, started, loopIntention>>

RemoveAt(seq, s) == SubSeq(seq, 1, s - 1) \o SubSeq(seq, s + 1, Len(seq))

\* The tail of sortIntentionQueue: the queue is replaced, the call returns.
rebuilt(s) ==
    /\ intentionQueue' =
           onlyDropOffsWhenSaturated(
               rebuildQueue(sorts[s].pickUps, intentionQueue), carriedParcel)
    /\ sorts' = RemoveAt(sorts, s)

\* Outside dual-agent mode NONE the queue is rebuilt as soon as Promise.all
\* has resolved.
SortPickUps(s) ==
    /\ sorts[s].pc = "scored"
    /\ rebuilt(s)
    /\ UNCHANGED <<queueFrame, agentVars, intentionsCreated, started,
                   loopIntention>>

\* In dual-agent mode NONE it is rebuilt when emitSay has been acknowledged.
RebuildQueue(s) ==
    /\ ~microtaskPending
    /\ sorts[s].pc = "say"
    /\ rebuilt(s)
    /\ UNCHANGED <<queueFrame, agentVars, intentionsCreated, started,
                   loopIntention>>

\* loop(): the head of the queue is shifted out and achieve() is called on
\* it; an intention that was started before only returns itself.
LoopPop ==
    /\ ~microtaskPending
    /\ intentionQueue # <<>> /\ initialized
    /\ loopIntention = NoIntention
    /\ LET intention == Head(intentionQueue)
       IN  /\ loopIntention' = [id |-> intention.id, predicate |-> intention.predicate,
                                firstRun |-> intention \notin started,
                                pickedUp |-> FALSE]
           /\ started' = started \cup {intention}
    /\ intentionQueue' = Tail(intentionQueue)
    /\ UNCHANGED <<queueFrame, agentVars, intentionsCreated, sorts>>

\* GoPickUp.execute calls agent.pickedUpParcel(id) after emitPickup.
PickedUpParcel ==
    /\ ~microtaskPending
    /\ loopIntention.firstRun /\ ~loopIntention.pickedUp
    /\ loopIntention.predicate[1] = "go_pick_up"
    /\ carriedParcel < CarriedBound
    /\ carriedParcel' = carriedParcel + 1
    /\ loopIntention' = [loopIntention EXCEPT !.pickedUp = TRUE]
    /\ UNCHANGED <<queueFrame, dualAgent, options, agentXY, initialized,
                   hand2HandMode, intentionQueue, intentionsCreated, started, sorts>>

\* achieve() settles (resolved or rejected); loop() goes round.
LoopSettled ==
    /\ ~microtaskPending
    /\ loopIntention # NoIntention
    /\ loopIntention' = NoIntention
    /\ UNCHANGED <<queueFrame, agentVars, intentionQueue,
                   intentionsCreated, started, sorts>>

Next ==
    \/ \E position \in AgentPositions : OnYou(position)
    \/ \E mode \in {NONE, GATHER} : Initialize(mode)
    \/ \E predicate \in options : Push(predicate)
    \/ SortIntentionQueue
    \/ \E s \in 1 .. Len(sorts) : GetCurrentPosition(s)
    \/ \E s \in 1 .. Len(sorts) : ScorePickUps(s)
    \/ \E s \in 1 .. Len(sorts) : SortPickUps(s)
    \/ \E s \in 1 .. Len(sorts) : RebuildQueue(s)
    \/ LoopPop
    \/ PickedUpParcel
    \/ LoopSettled

Spec == Init /\ [][Next]_vars

\* C32: an intention the loop has popped (its #started flag is set by the
\* achieve() call that follows the shift) is never in the queue again.
C32_PoppedNeverQueuedAgain ==
    \A k \in 1 .. Len(intentionQueue) : intentionQueue[k] \notin started

\* The constructed agent in either mode, with the first set of options.
SingleOptions ==
    {<<"go_pick_up", 3, 0, "P4">>, <<"go_pick_up", 1, 0, "P2">>, <<"go_drop_off", 3, 3>>}

InitModes ==
    /\ width = 8 /\ height = 8 /\ map = CorridorMap
    /\ adversaryAgents = <<>>
    /\ onMapLists
    /\ followerPosition = NoPosition
    /\ startPosition = NoPosition /\ endPosition = NoPosition
    /\ pathResult = NotCalled
    /\ dualAgent \in BOOLEAN
    /\ options = SingleOptions
    /\ isLeader = TRUE
    /\ AgentConstructed

\* Specification SpecModes: the queue, its sorts and the loop in dual-agent
\* and in single-agent mode.
SpecModes == InitModes /\ [][Next]_vars

C33_PickUpStaysQueued ==
    [][\A k \in 1 .. Len(intentionQueue) :
           LET intention == intentionQueue[k]
           IN  intention.predicate[1] = "go_pick_up" =>
                   \/ \E j \in 1 .. Len(intentionQueue') : intentionQueue'[j] = intention
                   \/ /\ loopIntention = NoIntention
                      /\ loopIntention'.id = intention.id
                      /\ loopIntention'.predicate = intention.predicate
                   \/ carriedParcel >= MAX_CARRIED_PARCELS]_vars

\* The agent after two pick-ups and with its go_drop_off popped: the counter
\* is at MAX_CARRIED_PARCELS, the three intentions were started, the loop is
\* inside achieve() of the go_drop_off.
MaxSaturatedIntentions == 5

AgentSaturated ==
    /\ agentXY = <<0, 0>>
    /\ carriedParcel = MAX_CARRIED_PARCELS
    /\ initialized = TRUE
    /\ hand2HandMode \in {NONE, GATHER}
    /\ intentionQueue = <<>>
    /\ intentionsCreated = SetToBag(SingleOptions)
    /\ started = {[id |-> 1, predicate |-> predicate] : predicate \in SingleOptions}
    /\ sorts = <<>>
    /\ loopIntention = [id |-> 1, predicate |-> <<"go_drop_off", 3, 3>>,
                        firstRun |-> TRUE, pickedUp |-> FALSE]
    /\ intentions = [i \in {1, 2} |-> NotCreated]
    /\ rpcs = <<>>
    /\ calls = <<>>
    /\ elections = <<>>
    /\ said = <<>>
    /\ tileMessages = <<>>
    /\ leaderPosition = NoPosition
    /\ depot = NoPosition
    /\ crashed = FALSE
    /\ now = 0
    /\ parcels = <<>>
    /\ parcelsToIgnore = <<>>
    /\ carryingParcel = FALSE
    /\ deliveryTile = NoPosition
    /\ tilesToAvoid = <<>>
    /\ generations = <<>>
    /\ lastRead = NoRead
    /\ eventsSensed = 0

InitSaturated ==
    /\ width = 8 /\ height = 8 /\ map = CorridorMap
    /\ adversaryAgents = <<>>
    /\ onMapLists
    /\ followerPosition = NoPosition
    /\ startPosition = NoPosition /\ endPosition = NoPosition
    /\ pathResult = NotCalled
    /\ dualAgent = TRUE
    /\ options = SingleOptions
    /\ isLeader = TRUE
    /\ AgentSaturated

\* The go_drop_off of the saturated agent has been achieved.
dropOffCompleted ==
    /\ loopIntention.predicate # <<"go_drop_off", 3, 3>>
    /\ [id |-> 1, predicate |-> <<"go_drop_off", 3, 3>>] \in started

\* A push that follows the drop-off.
PushAfterDropOff(predicate) ==
    /\ dropOffCompleted
    /\ BagCardinality(intentionsCreated) < MaxSaturatedIntentions
    /\ pushAccepted(predicate)

\* Specification SpecSaturated: the saturated agent completes its
\* go_drop_off; options are pushed and sorted afterwards.
NextSaturated ==
    \/ \E position \in AgentPositions : OnYou(position)
    \/ \E predicate \in options : PushAfterDropOff(predicate)
    \/ SortIntentionQueue
    \/ \E s \in 1 .. Len(sorts) : ScorePickUps(s)
    \/ \E s \in 1 .. Len(sorts) : SortPickUps(s)
    \/ \E s \in 1 .. Len(sorts) : RebuildQueue(s)
    \/ LoopPop
    \/ LoopSettled

SpecSaturated == InitSaturated /\ [][NextSaturated]_vars

\* C36: once the saturated agent has completed a go_drop_off, a sort that
\* returns leaves in the queue every go_pick_up intention it collected.
C36_PickUpsKeptAfterDropOff ==
    [][\A s \in 1 .. Len(sorts) :
          dropOffCompleted /\ Len(sorts') < Len(sorts)
              /\ sorts' = RemoveAt(sorts, s) =>
          \A k \in 1 .. Len(sorts[s].pickUps) :
              \E j \in 1 .. Len(intentionQueue') :
                  intentionQueue'[j] = sorts[s].pickUps[k]]_vars

----------------------------------------------------------------------------
(* Claims about the intention queue. *)

\* One sortIntentionQueue call from its first statement to its last with
\* nothing in between, on a queue of predicates.
intentionsFor(predicates) ==
    [k \in 1 .. Len(predicates) |-> [id |-> 1, predicate |-> predicates[k]]]

predicatesOf(queue) == [k \in 1 .. Len(queue) |-> queue[k].predicate]

sortedQueue(predicates, agentPosition, carried) ==
    LET queue == intentionsFor(predicates)
    IN  predicatesOf(onlyDropOffsWhenSaturated(
            rebuildQueue(intentionsOf(sortByDistance(scorePickUps(queue, agentPosition))),
                         queue),
            carried))

\* The step in which the sortIntentionQueue call s returns.
sortReturns(s) == SortPickUps(s) \/ RebuildQueue(s)

\* C1: in every reachable state the intention queue holds no two intentions
\* whose predicates are element-wise equal.
C1_NoEqualPredicates ==
    \A i, j \in 1 .. Len(intentionQueue) :
        i # j => intentionQueue[i].predicate # intentionQueue[j].predicate

\* A go_pick_up has been popped and pushed again while a sort that collected
\* the first intention is still waiting to rebuild the queue.
C1_Witness ==
    \E s \in 1 .. Len(sorts), k \in 1 .. Len(intentionQueue) :
        /\ sorts[s].pc = "say"
        /\ \E n \in 1 .. Len(sorts[s].pickUps) :
              /\ sorts[s].pickUps[n].predicate = intentionQueue[k].predicate
              /\ sorts[s].pickUps[n].id # intentionQueue[k].id

\* C3 as stated: in every reachable state with
\* carriedParcel >= MAX_CARRIED_PARCELS the queue holds only go_drop_off
\* intentions.  (pickedUpParcel raises the counter and leaves the queue
\* alone.)
C3_SaturatedOnlyDropOffs ==
    carriedParcel >= MAX_CARRIED_PARCELS
        => \A i \in 1 .. Len(intentionQueue) :
              intentionQueue[i].predicate[1] = "go_drop_off"

\* pickups, then at most one drop-off, then at most one go_to
QueueShape(queue) ==
    LET np == Len(ofKind(queue, "go_pick_up"))
        nd == Len(ofKind(queue, "go_drop_off"))
        ng == Len(ofKind(queue, "go_to"))
    IN  /\ nd <= 1 /\ ng <= 1
        /\ \A i \in 1 .. np : queue[i].predicate[1] = "go_pick_up"
        /\ nd = 1 => queue[np + 1].predicate[1] = "go_drop_off"

\* C4: when a sortIntentionQueue call returns, the queue is the pickups, then
\* at most one go_drop_off, then at most one go_to.
C4_ShapeAfterSort ==
    [][\A s \in 1 .. Len(sorts) : sortReturns(s) => QueueShape(intentionQueue')]_vars

\* Every sort has returned, and the second drop-off that was pushed is
\* neither queued nor was it ever popped: a sort discarded it.
C4_Witness ==
    /\ sorts = <<>>
    /\ predicatesOf(intentionQueue) = << <<"go_pick_up", 1, 0, "P2">>, <<"go_drop_off", 0, 0>> >>
    /\ BagIn(<<"go_drop_off", 3, 3>>, intentionsCreated)
    /\ \A i \in started : i.predicate # <<"go_drop_off", 3, 3>>

\* a <= b for distances, Infinity being the largest
distanceLeq(a, b) == b = Infinity \/ (a # Infinity /\ a <= b)

\* C5: when a sortIntentionQueue call returns, the go_pick_up intentions of
\* the queue are in non-decreasing order of their path length from the
\* position the call read at its start (no path: +Infinity); and the scenario
\* "Priority sort": at (0,0) the queue go_pick_up(5,5,P1), go_pick_up(1,0,P2),
\* go_drop_off(3,3), go_to(7,7) becomes P2, P1, the drop-off, the go_to, and
\* the pickup of the isolated tile (4,4) goes behind P2 and P1.
C5_PickUpsByDistance ==
    /\ sortedQueue(<< <<"go_pick_up", 5, 5, "P1">>, <<"go_pick_up", 1, 0, "P2">>,
                      <<"go_drop_off", 3, 3>>, <<"go_to", 7, 7>> >>, <<0, 0>>, 0)
         = << <<"go_pick_up", 1, 0, "P2">>, <<"go_pick_up", 5, 5, "P1">>,
              <<"go_drop_off", 3, 3>>, <<"go_to", 7, 7>> >>
    /\ sortedQueue(<< <<"go_pick_up", 4, 4, "P3">>, <<"go_pick_up", 5, 5, "P1">>,
                      <<"go_pick_up", 1, 0, "P2">> >>, <<0, 0>>, 0)
         = << <<"go_pick_up", 1, 0, "P2">>, <<"go_pick_up", 5, 5, "P1">>,
              <<"go_pick_up", 4, 4, "P3">> >>
    /\ [][\A s \in 1 .. Len(sorts) :
            sortReturns(s) =>
                LET pickUps == ofKind(intentionQueue', "go_pick_up")
                IN  \A i \in 1 .. Len(pickUps) - 1 :
                        distanceLeq(distanceOf(sorts[s].agentPosition, pickUps[i]),
                                    distanceOf(sorts[s].agentPosition, pickUps[i + 1]))]_vars

\* Every sort has returned and left the pickups at distances 1 and 3 from
\* (4,0), where the agent stands, before the drop-off.
C5_Witness ==
    /\ sorts = <<>>
    /\ agentXY = <<4, 0>>
    /\ predicatesOf(intentionQueue) =
          << <<"go_pick_up", 3, 0, "P4">>, <<"go_pick_up", 1, 0, "P2">>,
             <<"go_drop_off", 3, 3>> >>

----------------------------------------------------------------------------
(* The sensed world: WorldState's sensing handlers and WorldMap's lists of   *)
(* parcels and adversaries.                                                  *)

\* WorldState.#PARCEL_DECADING_INTERVAL, seconds per point of reward.
PARCEL_DECADING_INTERVAL == 1

\* Parcel.carriedBy of a parcel nobody carries.
NoOne == "null"

\* Parcel.isExpired(timestamp, PARCEL_DECADING_INTERVAL): timestamps are in
\* milliseconds, the points decayed are the whole intervals gone by.
isExpired(p, timestamp) ==
    LET pointsDecayed == (timestamp - p.timestamp) \div (1000 * PARCEL_DECADING_INTERVAL)
    IN  p.reward - pointsDecayed < 0

\* Mutant: an entry is pushed whether or not its id is in the list.
keepNewestAlwaysPush(list, entry) == Append(list, entry)

\* The body of the forEach of updateParcels and of updateAdversaryAgents: an
\* entry with the id of a listed one replaces it when it is newer and is
\* dropped otherwise; an entry with a new id is pushed.
keepNewest(list, entry) ==
    IF \E k \in 1 .. Len(list) : list[k].id = entry.id
    THEN LET k == CHOOSE j \in 1 .. Len(list) :
                      /\ list[j].id = entry.id
                      /\ \A i \in 1 .. j - 1 : list[i].id # entry.id
         IN  IF list[k].timestamp < entry.timestamp
             THEN [list EXCEPT ![k] = entry]
             ELSE list
    ELSE Append(list, entry)

RECURSIVE keepNewestOfAll(_, _)
keepNewestOfAll(list, entries) ==
    IF entries = <<>> THEN list
    ELSE keepNewestOfAll(keepNewest(list, Head(entries)), Tail(entries))

\* WorldMap.updateParcels(parcels, timestamp)
updateParcels(current, sensed, timestamp) ==
    keepNewestOfAll(SelectSeq(current, LAMBDA p : ~isExpired(p, timestamp)), sensed)

\* WorldMap.updateAdversaryAgents(adversaryAgents)
updateAdversaryAgents(current, sensed) == keepNewestOfAll(current, sensed)

\* WorldMap.parcelPickedUp(parcelId)
parcelPickedUp(current, parcelId) == SelectSeq(current, LAMBDA p : p.id # parcelId)

\* WorldState.#onParcelsSensed: the perceived parcels nobody carries become
\* Parcel objects stamped with Date.now().
sensedParcels(perceivedParcels, timestamp) ==
    LET free == SelectSeq(perceivedParcels, LAMBDA p : p.carriedBy = NoOne)
    IN  [k \in 1 .. Len(free) |->
            [id |-> free[k].id, x |-> free[k].x, y |-> free[k].y,
             reward |-> free[k].reward, timestamp |-> timestamp,
             carriedBy |-> NoOne]]

\* config.AGENT_ID and config.AGENT2_ID, the ids of the leader and the follower.
AGENT_ID == "leader"
AGENT2_ID == "follower"

\* The id of the agent of this process (Agent.#agentId).
agentId == IF isLeader THEN AGENT_ID ELSE AGENT2_ID

\* WorldState.#onAgentsSensed: the perceived agents that are none of ours
\* become AdversaryAgent objects stamped with Date.now().
sensedAdversaries(perceivedAgents, timestamp) ==
    LET others == SelectSeq(perceivedAgents,
                            LAMBDA a : ~(a.id = AGENT_ID \/ a.id = AGENT2_ID))
    IN  [k \in 1 .. Len(others) |->
            [id |-> others[k].id, x |-> others[k].x, y |-> others[k].y,
             timestamp |-> timestamp]]

\* #onAgentsSensed, the else branch: the position of the last perceived agent
\* with the given id of ours, or the position held before.
RECURSIVE sensedPosition(_, _, _)
sensedPosition(perceivedAgents, id, before) ==
    IF perceivedAgents = <<>> THEN before
    ELSE LET a == Head(perceivedAgents)
         IN  sensedPosition(Tail(perceivedAgents), id,
                            IF a.id = id THEN <<a.x, a.y>> ELSE before)

----------------------------------------------------------------------------
(* Specification SpecPlan: one Intention (agent/intention.js) and the plans  *)
(* of the plan library [GoTo, GoPickUp, GoDropOff] that achieve it.          *)
(* intentions[1] is the intention, intentions[2] the go_to sub-intention its *)
(* GoPickUp or GoDropOff plan adds.  A record holds the fields of the        *)
(* Intention (predicate, #started, #stopped), of its #current_plan (plan,    *)
(* planStopped, how many plans were instantiated) and the point at which the *)
(* plan's execute() is suspended:                                            *)
(*   "position"  polling getCurrentPosition() with setImmediate              *)
(*   "move"      first emitMove of a path step awaiting its acknowledgement  *)
(*   "pause"     the 10 ms timer between the two attempts                    *)
(*   "retry"     second emitMove awaiting its acknowledgement                *)
(*   "sub"       awaiting the sub-intention                                  *)
(*   "pickupOnTile", "pickup", "putdown"  the RPC awaiting its answer        *)
(*   "done"      achieve() settled with `result`                             *)
(* Code between two of these points runs without the event loop serving any  *)
(* other callback, so it is part of the action that resumes the plan.        *)

\* How many times achieve() is called on the intention.
MaxAchieveCalls == 2

\* A 3 x 2 map, open or with the middle column walled (no path to the target).
PlanMaps == {MapOf(3, 2, {}), MapOf(3, 2, {<<1, 0>>, <<1, 1>>})}

PlanPositions == {<<0, 0>>, <<0, 1>>, <<2, 0>>}

\* What the server reports of the parcel to pick up.
PlanSighting ==
    <<[id |-> "P1", x |-> 2, y |-> 0, reward |-> 5, carriedBy |-> NoOne]>>

\* How many parcels the agent picked up at most before the intention is
\* made.
MaxCarriedBefore == 1

PlanPredicates ==
    {<<"go_to", 2, 0>>, <<"go_pick_up", 2, 0, "P1">>, <<"go_drop_off", 2, 0>>}

\* config.PLAN_LIBRARY, in the order achieve() iterates over it.
PLAN_LIBRARY == <<"GoTo", "GoPickUp", "GoDropOff">>

\* isApplicableTo of each plan class: a test of the predicate's action.
isApplicableTo(planClass, predicate) ==
    CASE planClass = "GoTo"      -> predicate[1] = "go_to"
      [] planClass = "GoPickUp"  -> predicate[1] = "go_pick_up"
      [] planClass = "GoDropOff" -> predicate[1] = "go_drop_off"

\* The places of the library, from place k on, whose class applies.
applicableFrom(predicate, k) ==
    {j \in k .. Len(PLAN_LIBRARY) : isApplicableTo(PLAN_LIBRARY[j], predicate)}

placeOf(planClass) == CHOOSE k \in 1 .. Len(PLAN_LIBRARY) : PLAN_LIBRARY[k] = planClass

\* The loop of achieve(): the first class of the library that applies.
planClassFor(predicate) ==
    LET places == applicableFrom(predicate, 1)
    IN  IF places = {} THEN "none"
        ELSE PLAN_LIBRARY[CHOOSE j \in places : \A h \in places : j <= h]

\* Mutant: the error of the plan leaves achieve() as it is.
thrownAsSuch(ints, i) == "planError"

\* achieve() after the plan of intention i threw: the catch logs the error
\* and the loop goes on with the classes after it.  The stopped check at the
\* head of the loop (or the one after the loop) throws the stopped error;
\* with no class left that applies, the no-plan error is thrown.
thrown(ints, i) ==
    IF ints[i].stopped THEN "stopped"
    ELSE IF applicableFrom(ints[i].predicate, placeOf(ints[i].plan) + 1) = {}
         THEN "noPlan"
         ELSE "nextPlan"

\* The errors achieve() rejects with.
Errors == {"stopped", "noPlan", "planError", "parseError"}

\* JavaScript's null in the place of a predicate's action.
Null == "null"

\* parsePredicate of GoTo, GoPickUp and GoDropOff throws an Error on a
\* predicate with fewer than three elements or a null among the first three
\* (the predicates worked with here have numbers for coordinates).
malformed(predicate) == Len(predicate) < 3 \/ predicate[1] = Null

targetOf(predicate) == <<predicate[2], predicate[3]>>

\* GoTo.execute, the direction towards the next tile of the path.
directionTo(position, tile) ==
    IF tile[1] > position[1] THEN "right"
    ELSE IF tile[1] < position[1] THEN "left"
    ELSE IF tile[2] > position[2] THEN "up"
    ELSE IF tile[2] < position[2] THEN "down"
    ELSE "undefined"

\* Where the server puts the agent when it accepts a move.
moved(position, direction) ==
    CASE direction = "right" -> <<position[1] + 1, position[2]>>
      [] direction = "left"  -> <<position[1] - 1, position[2]>>
      [] direction = "up"    -> <<position[1], position[2] + 1>>
      [] direction = "down"  -> <<position[1], position[2] - 1>>
      [] OTHER               -> position

\* The outcome of running a plan up to its next suspension: the intentions
\* and the RPCs emitted on the way.
emit(ints, i, rpc) == [ints |-> ints, emits |-> <<[rpc |-> rpc, by |-> i]>>]
quiet(ints) == [ints |-> ints, emits |-> <<>>]

settled(ints, i, result) == [ints EXCEPT ![i].pc = "done", ![i].result = result]

\* GoPickUp.execute / GoDropOff.execute after `await this.addSubIntention`:
\* a rejected sub-intention rejects the plan, and so does the stopped check;
\* otherwise the plan emits its RPC.  A plan that throws makes achieve()
\* reject (no other plan of the library applies to the predicate).
afterSubIntention(ints) ==
    IF ints[2].result \in Errors \/ ints[1].planStopped
    THEN quiet(settled(ints, 1, thrown(ints, 1)))
    ELSE IF ints[1].plan = "GoPickUp"
         THEN emit([ints EXCEPT ![1].pc = "pickup"], 1, "emitPickup")
         ELSE emit([ints EXCEPT ![1].pc = "putdown"], 1, "emitPutdown")

\* achieve() of intention i settles; the plan awaiting the sub-intention
\* goes on.
finish(ints, i, result) ==
    IF i = 2 THEN afterSubIntention(settled(ints, 2, result))
    ELSE quiet(settled(ints, 1, result))

\* GoTo.execute, head of the loop over the path: the stopped check, the
\* direction from the agent's position, the first emitMove.
goToStep(ints, i, position) ==
    IF ints[i].path = <<>> THEN finish(ints, i, "true")
    ELSE IF ints[i].planStopped THEN finish(ints, i, thrown(ints, i))
    ELSE LET direction == directionTo(position, Head(ints[i].path))
         IN  emit([ints EXCEPT ![i].pc = "move", ![i].direction = direction],
                  i, "emitMove")

RECURSIVE achieve(_, _, _), execute(_, _, _), located(_, _, _)

\* Plan.addSubIntention: a new Intention for the go_to predicate, pushed on
\* #subIntentions and achieved at once.
addSubIntention(ints, predicate, position) ==
    achieve([ints EXCEPT ![1].pc = "sub",
                         ![2] = [NotCreated EXCEPT !.created = TRUE,
                                                   !.predicate = predicate]],
            2, position)

\* execute() of the plan of intention i resumes with the agent's position.
\*   GoTo: on the target tile it returns true; without a path it throws;
\*     otherwise it walks the path.
\*   GoPickUp: on the parcel's tile, stopped check and emitPickup; otherwise
\*     stopped check and the go_to sub-intention.
\*   GoDropOff: it destructures {agentX, agentY} from {x, y}, both undefined,
\*     so the on-tile branch is never taken; no stopped check before the
\*     sub-intention.
located(ints, i, position) ==
    LET target == targetOf(ints[i].predicate)
    IN  CASE ints[i].plan = "GoTo" ->
                IF position = target THEN finish(ints, i, "true")
                ELSE LET found == findPath(position, target)
                     IN  IF ~found.found THEN finish(ints, i, thrown(ints, i))
                         ELSE goToStep([ints EXCEPT ![i].path = found.path],
                                       i, position)
          [] ints[i].plan = "GoPickUp" ->
                IF ints[i].planStopped THEN finish(ints, i, thrown(ints, i))
                ELSE IF position = target
                     THEN emit([ints EXCEPT ![i].pc = "pickupOnTile"], i, "emitPickup")
                     ELSE addSubIntention(ints, <<"go_to", target[1], target[2]>>,
                                          position)
          [] ints[i].plan = "GoDropOff" ->
                addSubIntention(ints, <<"go_to", target[1], target[2]>>, position)

\* The start of execute(): `await agent.getCurrentPosition()`, which polls
\* with setImmediate while the position is unknown.
execute(ints, i, position) ==
    IF position = NoPosition THEN quiet([ints EXCEPT ![i].pc = "position"])
    ELSE located(ints, i, position)

\* Intention.achieve of an intention that has not started: #started is set;
\* a stopped intention throws; parsePredicate of the first class, called
\* outside the try, throws on a malformed predicate; otherwise the
\* applicable plan of the library is instantiated and executed.
achieve(ints, i, position) ==
    LET begun == [ints EXCEPT ![i].started = TRUE]
    IN  IF begun[i].stopped THEN finish(begun, i, "stopped")
        ELSE IF malformed(begun[i].predicate) THEN finish(begun, i, "parseError")
        ELSE execute([begun EXCEPT ![i].plan = planClassFor(begun[i].predicate),
                                   ![i].plans = @ + 1,
                                   ![i].planStopped = FALSE],
                     i, position)

\* Mutant: the #started flag is never honoured.
alreadyStartedNever(intention) == FALSE

\* Intention.achieve, `if ( this.#started ) return this`.
alreadyStarted(intention) == intention.started

\* The variables no action of SpecPlan changes.
planFrame ==
    <<mapVars, pathVars, queueVars, electionVars, tileMessages, teamVars, now, parcelsToIgnore,
      carryingParcel, deliveryTile, tilesToAvoid, generations, lastRead,
      eventsSensed, dualAgent, options, initialized, hand2HandMode>>

\* The first achieve() call settles when the intention does.
resolved(cs, ints) ==
    IF cs # <<>> /\ cs[1] = "pending" /\ ints[1].pc = "done"
    THEN [cs EXCEPT ![1] = ints[1].result]
    ELSE cs

\* The step `next` is taken; each emitted RPC is logged with whether stop()
\* had been called on the intention before.
commit(next, cs) ==
    /\ intentions' = next.ints
    /\ rpcs' = rpcs \o [k \in 1 .. Len(next.emits) |->
                            [rpc |-> next.emits[k].rpc, by |-> next.emits[k].by,
                             afterStop |-> intentions[1].stopped,
                             answer |-> "none"]]
    /\ calls' = resolved(cs, next.ints)

InitPlan ==
    /\ width = 3 /\ height = 2
    /\ map \in PlanMaps
    /\ adversaryAgents = <<>>
    /\ onMapLists
    /\ followerPosition = NoPosition
    /\ startPosition = NoPosition
    /\ endPosition = NoPosition
    /\ pathResult = NotCalled
    /\ dualAgent = FALSE
    /\ options = {}
    /\ isLeader = TRUE
    /\ AgentConstructed

\* Agent.pickedUpParcel(parcelId)
pickedUpParcel(parcelId) ==
    /\ parcels' = parcelPickedUp(parcels, parcelId)
    /\ carriedParcel' = carriedParcel + 1

\* WorldState.#onParcelsSensed before the intention is made: the parcel of
\* the go_pick_up predicate is sensed on its tile.
PlanParcelsSensing ==
    /\ ~intentions[1].created
    /\ parcels = <<>>
    /\ carriedParcel = 0
    /\ parcels' = updateParcels(parcels, sensedParcels(PlanSighting, now), now)
    /\ UNCHANGED <<planFrame, agentXY, carriedParcel, planVars>>

\* new Intention(parent, predicate, client).
NewIntention(predicate) ==
    /\ ~intentions[1].created
    /\ intentions' = [intentions EXCEPT ![1].created = TRUE,
                                        ![1].predicate = predicate]
    /\ UNCHANGED <<planFrame, agentXY, carriedParcel, parcels, rpcs, calls>>

\* client.onYou at connection: the agent learns its position.
PlanOnYou(position) ==
    /\ agentXY = NoPosition
    /\ agentXY' = position
    /\ UNCHANGED <<planFrame, carriedParcel, parcels, planVars>>

\* intention.achieve() is called.
AchieveCall ==
    /\ intentions[1].created
    /\ Len(calls) < MaxAchieveCalls
    /\ IF alreadyStarted(intentions[1])
       THEN /\ calls' = Append(calls, "this")
            /\ UNCHANGED <<intentions, rpcs>>
       ELSE commit(achieve(intentions, 1, agentXY), Append(calls, "pending"))
    /\ UNCHANGED <<planFrame, agentXY, carriedParcel, parcels>>

\* getCurrentPosition(): the setImmediate callback finds the position set.
PositionFetched(i) ==
    /\ intentions[i].pc = "position"
    /\ agentXY # NoPosition
    /\ commit(located(intentions, i, agentXY), calls)
    /\ UNCHANGED <<planFrame, agentXY, carriedParcel, parcels>>

\* The server answers an emitMove.  An accepted move puts the agent on the
\* next tile (the `you` event of the move precedes the acknowledgement) and
\* GoTo goes to the next path step; after a refused move GoTo waits 10 ms.
MoveAck(i, ok) ==
    /\ intentions[i].pc \in {"move", "retry"}
    /\ IF ok
       THEN /\ agentXY' = moved(agentXY, intentions[i].direction)
            /\ commit(goToStep([intentions EXCEPT ![i].path = Tail(@)], i, agentXY'),
                      calls)
       ELSE /\ agentXY' = agentXY
            /\ commit(quiet([intentions EXCEPT ![i].pc =
                                IF @ = "move" THEN "pause" ELSE "lastPause"]),
                      calls)
    /\ UNCHANGED <<planFrame, carriedParcel, parcels>>

\* The 10 ms timer after the first refused attempt fires: the second
\* emitMove of the path step, issued without a stopped check.
RetryMove(i) ==
    /\ intentions[i].pc = "pause"
    /\ commit(emit([intentions EXCEPT ![i].pc = "retry"], i, "emitMove"), calls)
    /\ UNCHANGED <<planFrame, agentXY, carriedParcel, parcels>>

\* The timer after the second refused attempt fires: GoTo returns false.
GiveUp(i) ==
    /\ intentions[i].pc = "lastPause"
    /\ commit(finish(intentions, i, "false"), calls)
    /\ UNCHANGED <<planFrame, agentXY, carriedParcel, parcels>>

\* The server answers emitPickup / emitPutdown with the parcels picked up or
\* put down, `picked` telling whether there is any; the plan does not look
\* at the answer.  After the stopped check GoPickUp in its off-tile branch
\* (parcel id given) calls agent.pickedUpParcel; the plan returns true.
RpcAnswered(picked) ==
    /\ intentions[1].pc \in {"pickupOnTile", "pickup", "putdown"}
    /\ rpcs' = [rpcs EXCEPT ![Len(rpcs)].answer =
                                IF picked THEN "some" ELSE "nothing"]
    /\ LET next == finish(intentions, 1,
                          IF intentions[1].planStopped
                          THEN thrown(intentions, 1) ELSE "true")
       IN  /\ intentions' = next.ints
           /\ calls' = resolved(calls, next.ints)
    /\ IF /\ intentions[1].pc = "pickup"
          /\ ~intentions[1].planStopped
          /\ Len(intentions[1].predicate) >= 4
       THEN pickedUpParcel(intentions[1].predicate[4])
       ELSE UNCHANGED <<carriedParcel, parcels>>
    /\ UNCHANGED <<planFrame, agentXY>>

\* GoPickUp.execute of an earlier intention of the queue, a go_pick_up that
\* ran before this one was made: its plan called agent.pickedUpParcel.
EarlierPickUp ==
    /\ ~intentions[1].created
    /\ carriedParcel < MaxCarriedBefore
    /\ pickedUpParcel(PlanSighting[1].id)
    /\ UNCHANGED <<planFrame, agentXY, planVars>>

\* intention.stop(): #stopped is set, the current plan (if any) is stopped,
\* and Plan.stop stops the sub-intentions it holds and their plans.
Stop ==
    /\ intentions[1].created
    /\ ~intentions[1].stopped
    /\ LET hasPlan == intentions[1].plan # "none"
           hasSub  == hasPlan /\ intentions[2].created
       IN  intentions' =
               [intentions EXCEPT
                   ![1].stopped = TRUE,
                   ![1].planStopped = hasPlan,
                   ![2].stopped = @ \/ hasSub,
                   ![2].planStopped = @ \/ (hasSub /\ intentions[2].plan # "none")]
    /\ UNCHANGED <<planFrame, agentXY, carriedParcel, parcels, rpcs, calls>>

NextPlan ==
    \/ \E predicate \in PlanPredicates : NewIntention(predicate)
    \/ \E position \in PlanPositions : PlanOnYou(position)
    \/ AchieveCall
    \/ \E i \in {1, 2} : PositionFetched(i)
    \/ \E i \in {1, 2}, ok \in BOOLEAN : MoveAck(i, ok)
    \/ \E i \in {1, 2} : RetryMove(i)
    \/ \E i \in {1, 2} : GiveUp(i)
    \/ \E picked \in BOOLEAN : RpcAnswered(picked)
    \/ Stop
    \/ PlanParcelsSensing
    \/ EarlierPickUp

SpecPlan == InitPlan /\ [][NextPlan]_vars

\* C2: after stop() is called on an intention, no emitMove, emitPickup or
\* emitPutdown is issued by its plan or by the plan of its sub-intention,
\* also when stop() arrives between the two move attempts of a path step or
\* while GoPickUp / GoDropOff awaits the go_to sub-intention.
C2_NoRpcAfterStop == \A k \in 1 .. Len(rpcs) : ~rpcs[k].afterStop

\* C6 as stated: a later achieve() call yields the result value of the first
\* call.
C6_SecondCallSameResult ==
    \A k \in 2 .. Len(calls) : calls[1] # "pending" => calls[k] = calls[1]

\* C6: an achieve() call on an intention that has started returns the
\* Intention itself, changes no intention or plan and emits no RPC; no
\* intention has more than one plan instantiated, and #started is never reset.
C6_SecondCallReturnsIntention ==
    /\ [](\A i \in {1, 2} : intentions[i].plans <= 1)
    /\ [][/\ \A i \in {1, 2} : intentions[i].started => intentions'[i].started
          /\ (calls # <<>> /\ Len(calls') = Len(calls) + 1)
                => /\ calls' = Append(calls, "this")
                   /\ rpcs' = rpcs
                   /\ intentions' = intentions]_vars

\* A go_pick_up intention walked two tiles, picked up and returned true; the
\* second achieve() call returned the Intention.
C6_Witness ==
    /\ calls = <<"true", "this">>
    /\ intentions[1].plan = "GoPickUp"
    /\ intentions[1].plans = 1
    /\ Len(rpcs) = 3

\* C13: whenever a GoDropOff plan completes successfully (its putdown RPC was
\* issued and answered, the plan returns true), agent.dropAllParcels() has
\* been called: the count of carried parcels is 0 afterwards.
C13_DropOffResetsCarried ==
    [][(/\ intentions[1].plan = "GoDropOff"
        /\ intentions[1].pc = "putdown"
        /\ intentions'[1].pc = "done"
        /\ intentions'[1].result = "true") => carriedParcel' = 0]_vars

\* C14: when the pickup RPC of a GoPickUp plan is answered, the plan calls
\* agent.pickedUpParcel(id) (the count of carried parcels grows by one and
\* the parcel leaves the map's list) if and only if the RPC picked up some
\* parcel, on the on-tile branch as well as after the go_to sub-intention,
\* and not when the sub-intention returned false.
C14_PickedUpIffRpcSucceeded ==
    [][(/\ intentions[1].plan = "GoPickUp"
        /\ intentions[1].pc \in {"pickupOnTile", "pickup"}
        /\ intentions'[1].pc = "done")
          => LET called == /\ carriedParcel' = carriedParcel + 1
                           /\ parcels' = parcelPickedUp(parcels,
                                                        intentions[1].predicate[4])
                 answer == rpcs'[Len(rpcs)].answer
             IN  /\ called <=> answer = "some"
                 /\ intentions[2].result = "false" => ~called]_vars

\* C19: an intention on which stop() was called before achieve() settled
\* fails with the stopped error; achieve() never resolves with the value its
\* plan returned.
C19_StoppedNeverSucceeds ==
    [][\A i \in {1, 2} :
          (/\ intentions[i].stopped
           /\ intentions[i].pc # "done"
           /\ intentions'[i].pc = "done") => intentions'[i].result = "stopped"]_vars

\* C20: the plan of an intention is the first class of PLAN_LIBRARY, in its
\* order, that applies to the predicate; achieve() settles with the value the
\* plan returned, with the stopped error or with the no-plan error, never
\* with the error its plan threw; and an achieve() that settles without a
\* plan's value on an intention that was not stopped fails with the no-plan
\* error.
C20_PlanErrorsBecomeNoPlan ==
    /\ [](\A i \in {1, 2} :
            /\ intentions[i].plan # "none" =>
                  /\ isApplicableTo(intentions[i].plan, intentions[i].predicate)
                  /\ \A j \in 1 .. placeOf(intentions[i].plan) - 1 :
                        ~isApplicableTo(PLAN_LIBRARY[j], intentions[i].predicate)
            /\ intentions[i].result \in {"none", "true", "false", "stopped", "noPlan"})
    /\ [][\A i \in {1, 2} :
            (/\ intentions[i].pc # "done"
             /\ intentions'[i].pc = "done"
             /\ intentions'[i].result \notin {"true", "false"}
             /\ ~intentions'[i].stopped) => intentions'[i].result = "noPlan"]_vars

\* A go_pick_up intention whose go_to sub-intention found no path: the
\* sub-intention failed with the no-plan error, GoPickUp threw it, and the
\* intention, never stopped, failed with the no-plan error.
C20_Witness ==
    /\ intentions[1].plan = "GoPickUp"
    /\ intentions[2].plan = "GoTo"
    /\ intentions[2].result = "noPlan"
    /\ ~intentions[1].stopped
    /\ intentions[1].plans = 1
    /\ rpcs = <<>>
    /\ calls = <<"noPlan">>

\* C37: GoTo.execute ends with true or with a thrown no_path_found or
\* stopped: no intention served by GoTo settles with the result false.
C37_GoToNeverReturnsFalse ==
    \A i \in {1, 2} :
        intentions[i].plan = "GoTo" /\ intentions[i].pc = "done" =>
            intentions[i].result # "false"

----------------------------------------------------------------------------
(* Specification SpecLoop: Agent.loop consuming the intention queue.  push   *)
(* and sortIntentionQueue fill and reorder the queue as in Spec; loop()      *)
(* shifts the head out and awaits its achieve(), which runs the plans of     *)
(* SpecPlan: intentions[1] is the intention loop() is awaiting (or awaited   *)
(* last), intentions[2] its sub-intention, rpcs the RPCs of that intention,  *)
(* and calls holds what the achieve() calls of loop() returned, the latest   *)
(* first.  The continuation of loop() after a settled achieve() is a         *)
(* microtask.                                                                *)

\* Cap on the number of Intention objects push builds.
MaxLoopIntentions == 2

\* What push is called with: the predicates of option generation, a go_to
\* without its y and a predicate whose action is null.
LoopPredicates ==
    {<<"go_to", 2, 0>>, <<"go_pick_up", 2, 0, "P1">>, <<"go_to", 1>>, <<Null, 2, 0>>}

LoopPositions == {<<0, 0>>}

\* The variables no action of SpecLoop changes.
loopFrame ==
    <<mapVars, pathVars, electionVars, tileMessages, isLeader, leaderPosition, depot, now,
      parcelsToIgnore, carryingParcel, deliveryTile, tilesToAvoid, generations,
      lastRead, eventsSensed, dualAgent, options, hand2HandMode>>

InitLoop ==
    /\ width = 3 /\ height = 2
    /\ map \in PlanMaps
    /\ adversaryAgents = <<>>
    /\ onMapLists
    /\ followerPosition = NoPosition
    /\ startPosition = NoPosition
    /\ endPosition = NoPosition
    /\ pathResult = NotCalled
    /\ dualAgent = TRUE
    /\ options = LoopPredicates
    /\ isLeader = TRUE
    /\ AgentConstructed

\* Mutant: the loop consumes the queue of an agent that is not initialized.
canConsumeUninitialized(queue, ready) == Len(queue) > 0

\* loop(), `this.#intentionQueue.length > 0 && this.#initialized`.
canConsume(queue, ready) == Len(queue) > 0 /\ ready

\* Mutant: the handler catches the arrays achieve() throws, not an Error.
caughtArraysOnly(error) == error \in Errors \ {"parseError"}

\* loop(), `intention.achieve().catch(error => ...)`: the handler takes
\* every rejection of achieve(), whatever was thrown.
caught(error) == error \in Errors

\* loop(): the head of the queue is shifted out and achieve() is called on
\* it.  An intention that was started before returns itself; otherwise
\* achieve() runs up to its first suspension.
consumeNext ==
    LET intention == Head(intentionQueue)
        fresh == [i \in {1, 2} |->
                     IF i = 1 THEN [NotCreated EXCEPT !.created = TRUE,
                                                      !.predicate = intention.predicate]
                     ELSE NotCreated]
        next == achieve(fresh, 1, agentXY)
    IN  /\ intentionQueue' = Tail(intentionQueue)
        /\ loopIntention' = [id |-> intention.id, predicate |-> intention.predicate,
                             firstRun |-> intention \notin started,
                             pickedUp |-> FALSE]
        /\ started' = started \cup {intention}
        /\ IF intention \in started
           THEN /\ calls' = <<"this">> \o calls
                /\ UNCHANGED <<intentions, rpcs>>
           ELSE /\ intentions' = next.ints
                /\ rpcs' = [k \in 1 .. Len(next.emits) |->
                               [rpc |-> next.emits[k].rpc, by |-> next.emits[k].by,
                                afterStop |-> FALSE, answer |-> "none"]]
                /\ calls' = resolved(<<"pending">> \o calls, next.ints)

\* loop() wakes from `await new Promise(res => setImmediate(res))` and finds
\* the queue consumable.
LoopWake ==
    /\ ~microtaskPending
    /\ loopIntention = NoIntention
    /\ canConsume(intentionQueue, initialized)
    /\ consumeNext
    /\ UNCHANGED <<loopFrame, agentXY, carriedParcel, parcels, initialized,
                   crashed, intentionsCreated, sorts>>

\* loop() resumes after `await intention.achieve().catch(...)`: a rejection
\* the handler does not take leaves loop() and ends the process; otherwise
\* the response is logged and the loop goes round: it consumes the next
\* intention at once, or waits for setImmediate.
LoopResponse ==
    /\ loopIntention # NoIntention
    /\ calls[1] # "pending"
    /\ IF calls[1] \in Errors /\ ~caught(calls[1])
       THEN /\ crashed' = TRUE
            /\ UNCHANGED <<queueVars, planVars>>
       ELSE /\ crashed' = crashed
            /\ IF canConsume(intentionQueue, initialized)
               THEN consumeNext
               ELSE /\ loopIntention' = NoIntention
                    /\ UNCHANGED <<intentionQueue, started, planVars>>
    /\ UNCHANGED <<loopFrame, agentXY, carriedParcel, parcels, initialized,
                   intentionsCreated, sorts>>

\* push(predicate), as often as the cap allows.
LoopPush(predicate) ==
    /\ ~microtaskPending
    /\ BagCardinality(intentionsCreated) < MaxLoopIntentions
    /\ Push(predicate)

\* intention.stop() on the intention loop() awaits.
LoopStop ==
    /\ loopIntention # NoIntention
    /\ loopIntention.firstRun
    /\ Stop

\* Nothing runs in a process that has ended.
NextLoop ==
    \/ \E position \in LoopPositions :
          ~crashed /\ ~microtaskPending /\ PlanOnYou(position)
    \/ ~crashed /\ Initialize(NONE)
    \/ \E predicate \in options : ~crashed /\ LoopPush(predicate)
    \/ \E s \in 1 .. Len(sorts) : ~crashed /\ GetCurrentPosition(s)
    \/ \E s \in 1 .. Len(sorts) : ~crashed /\ ScorePickUps(s)
    \/ \E s \in 1 .. Len(sorts) : ~crashed /\ RebuildQueue(s)
    \/ ~crashed /\ LoopWake
    \/ ~crashed /\ LoopResponse
    \/ \E i \in {1, 2} : ~crashed /\ ~microtaskPending /\ PositionFetched(i)
    \/ \E i \in {1, 2}, ok \in BOOLEAN :
          ~crashed /\ ~microtaskPending /\ MoveAck(i, ok)
    \/ \E i \in {1, 2} : ~crashed /\ ~microtaskPending /\ RetryMove(i)
    \/ \E i \in {1, 2} : ~crashed /\ ~microtaskPending /\ GiveUp(i)
    \/ \E picked \in BOOLEAN : ~crashed /\ ~microtaskPending /\ RpcAnswered(picked)
    \/ ~crashed /\ ~microtaskPending /\ LoopStop

SpecLoop == InitLoop /\ [][NextLoop]_vars

\* C21: push(predicate) with a malformed predicate is rejected: no Intention
\* is built for it and none enters the intention queue.
C21_MalformedPushRejected ==
    /\ \A predicate \in BagToSet(intentionsCreated) : ~malformed(predicate)
    /\ \A k \in 1 .. Len(intentionQueue) : ~malformed(intentionQueue[k].predicate)

\* C22: loop() shifts an intention out of the queue and calls achieve() on
\* it only when the queue is not empty and #initialized is set, the
\* intention is the head of the queue, and the achieve() of the intention
\* consumed before has settled: at most one achieve() of loop() is pending.
C22_OneIntentionAtATime ==
    /\ [](\A k \in 2 .. Len(calls) : calls[k] # "pending")
    /\ [][Len(calls') = Len(calls) + 1 =>
             /\ intentionQueue # <<>>
             /\ initialized
             /\ calls = <<>> \/ calls[1] # "pending"
             /\ loopIntention'.predicate = Head(intentionQueue).predicate
             /\ intentionQueue' = Tail(intentionQueue)]_vars

\* The go_to intention was achieved and returned true; the loop has gone on
\* to the go_pick_up intention, whose sub-intention awaits a move.
C22_Witness ==
    /\ Len(calls) = 2
    /\ calls[2] = "true"
    /\ calls[1] = "pending"
    /\ loopIntention.predicate = <<"go_pick_up", 2, 0, "P1">>
    /\ intentions[2].pc = "move"

----------------------------------------------------------------------------
(* Specification SpecElection: the leader of a dual-agent team and the       *)
(* companion_position messages of its companion (agent/agent.js,             *)
(* #handleCompanionPositionMessage).  The map has arrived.  A handler call   *)
(* is "checking" from the message to its emitSay: both reachability checks  *)
(* await resolved promises, so no other callback runs in between.  It is    *)
(* then suspended, holding the behaviour it said, until the server          *)
(* acknowledges the say; further messages are handled in the meantime.  The *)
(* leader does not move before it is initialized (loop() pops nothing); the *)
(* companion's position may differ from message to message.                 *)

\* How many elections the leader may start.
MaxElections == 3

ElectionWalls == {<<0, 1>>, <<1, 1>>, <<3, 1>>, <<4, 1>>}

\* A corridor with the depot at its left end and the spawn at its right end,
\* and a niche at (2,1).
ElectionTiles(walls) ==
    [t \in Coordinates(5, 2) |->
        IF t \in walls THEN WALL
        ELSE IF t = <<0, 0>> THEN DEPOT
        ELSE IF t = <<4, 0>> THEN SPAWN
        ELSE OTHERTILE]

ElectionMaps ==
    {ElectionTiles(ElectionWalls),
     ElectionTiles(ElectionWalls \cup {<<1, 0>>}),
     ElectionTiles(ElectionWalls \cup {<<3, 0>>})}

LeaderPosition == <<2, 0>>
FollowerPositions == {<<1, 0>>, <<3, 0>>, <<2, 1>>}

\* map.#depotTiles / map.#spawnTiles.
tilesOfType(type) == {t \in DOMAIN map : map[t] = type}

\* Mutant: any tile of the type, reached or not.
checkIfCanReachAny(type) ==
    IF tilesOfType(type) = {} THEN NoPosition ELSE CHOOSE t \in tilesOfType(type) : TRUE

\* #checkIfCanDeliver / #checkIfCanGather: a tile of the type that findPath
\* reaches from {#x, #y}, or null (NoPosition).  The election only tests the
\* result for null.
checkIfCanReach(type) ==
    LET reached == {t \in tilesOfType(type) : findPath(agentXY, t).found}
    IN  IF reached = {} THEN NoPosition ELSE CHOOSE t \in reached : TRUE

\* The behaviour the leader asks of its companion.
electedBehavior ==
    IF checkIfCanReach(DEPOT) = NoPosition THEN "deliver"
    ELSE IF checkIfCanReach(SPAWN) = NoPosition THEN "gather"
    ELSE "none"

InitElection ==
    /\ width = 5 /\ height = 2
    /\ map \in ElectionMaps
    /\ adversaryAgents = <<>>
    /\ onMapLists
    /\ followerPosition = NoPosition
    /\ startPosition = NoPosition
    /\ endPosition = NoPosition
    /\ pathResult = NotCalled
    /\ dualAgent = TRUE
    /\ options = {}
    /\ isLeader = TRUE
    /\ AgentConstructed

\* The variables no action of SpecElection changes.
electionFrame ==
    <<width, height, map, depotTiles, spawnTiles, adversaryAgents, pathVars, queueVars,
      planVars, teamVars, beliefVars, dualAgent, options, carriedParcel, tileMessages>>

\* A handler is between its first await and its emitSay.
electionChecking == \E k \in 1 .. Len(elections) : elections[k] = "checking"

\* client.onYou of the leader at connection.
LeaderOnYou ==
    /\ ~electionChecking
    /\ agentXY = NoPosition
    /\ agentXY' = LeaderPosition
    /\ UNCHANGED <<electionFrame, followerPosition, initialized, hand2HandMode,
                   electionVars>>

\* #handleCompanionPositionMessage up to its first await: the follower's
\* position is recorded; a leader that is not initialized starts the check.
CompanionPosition(position) ==
    /\ ~electionChecking
    /\ initialized \/ Len(said) < MaxElections
    /\ followerPosition' = position
    /\ elections' = IF dualAgent /\ ~initialized
                    THEN Append(elections, "checking")
                    ELSE elections
    /\ UNCHANGED <<electionFrame, agentXY, initialized, hand2HandMode, said>>

\* The handler checks depot and spawn and says the behaviour to the
\* companion.
Elect ==
    /\ electionChecking
    /\ elections' = [elections EXCEPT ![Len(elections)] = electedBehavior]
    /\ said' = Append(said, electedBehavior)
    /\ UNCHANGED <<electionFrame, agentXY, followerPosition, initialized,
                   hand2HandMode>>

\* The say is acknowledged: the handler sets the leader's mode (in the none
\* branch it leaves the mode alone) and #initialized.
SayAcknowledged ==
    /\ ~electionChecking
    /\ elections # <<>>
    /\ hand2HandMode' =
          CASE Head(elections) = "deliver" -> GATHER
            [] Head(elections) = "gather"  -> DELIVER
            [] OTHER                       -> hand2HandMode
    /\ initialized' = TRUE
    /\ elections' = Tail(elections)
    /\ UNCHANGED <<electionFrame, agentXY, followerPosition, said>>

NextElection ==
    \/ LeaderOnYou
    \/ \E position \in FollowerPositions : CompanionPosition(position)
    \/ Elect
    \/ SayAcknowledged

SpecElection == InitElection /\ [][NextElection]_vars

\* Reference: some tile of the type can be reached from the leader's tile
\* over walkable tiles.
Reachable(type) ==
    \E t \in tilesOfType(type) : ShortestDistance(agentXY, t) # -1

\* C10: a not yet initialized leader handling companion_position says deliver
\* and sets its mode to GATHER if it reaches no depot, otherwise says gather
\* and sets its mode to DELIVER if it reaches no spawn, otherwise says none
\* and is in mode NONE; the handler ends with initialized = true.
C10_ElectionOutcome ==
    [][/\ Len(said') > Len(said)
            => said'[Len(said')] =
                  (IF ~Reachable(DEPOT) THEN "deliver"
                   ELSE IF ~Reachable(SPAWN) THEN "gather" ELSE "none")
       /\ Len(elections') < Len(elections)
            => /\ initialized'
               /\ hand2HandMode' =
                     CASE Head(elections) = "deliver" -> GATHER
                       [] Head(elections) = "gather"  -> DELIVER
                       [] OTHER                       -> NONE]_vars

\* C29: however many companion_position messages the leader handles, it
\* starts one election only: at most one handler is ever in flight or done,
\* and at most one hand2hand message is sent.
C29_OneElection == Len(said) <= 1 /\ Len(elections) <= 1

\* C30, for the leader: once its initialized flag is true, no step changes
\* its hand2HandMode, however the companion_position handlers interleave.
C30_ModeFixedOnceInitialized ==
    [][initialized => hand2HandMode' = hand2HandMode]_vars

\* C35, for the leader: in mode DELIVER the #depot field holds a depot tile
\* of the map.
C35_DeliverHasDepot == hand2HandMode = DELIVER => depot \in tilesOfType(DEPOT)

----------------------------------------------------------------------------
(* Specification SpecFollower: the follower's process (isLeader = false) and *)
(* the messages of the leader.  The map has arrived, so the awaits inside    *)
(* #handleHand2HandMessage resolve within the handler's event-loop turn.  A  *)
(* handler that throws rejects a promise nobody handles, which ends the      *)
(* process.  In this process WorldMap.#followerPosition is never set.        *)

FollowerStarts == {<<2, 0>>, <<2, 1>>, <<4, 0>>}
LeaderPositions == {<<0, 0>>, <<1, 0>>, <<3, 0>>}
Behaviors == {"deliver", "gather", "none"}

InitFollower ==
    /\ width = 5 /\ height = 2
    /\ map \in ElectionMaps
    /\ adversaryAgents = <<>>
    /\ onMapLists
    /\ followerPosition = NoPosition
    /\ startPosition = NoPosition
    /\ endPosition = NoPosition
    /\ pathResult = NotCalled
    /\ dualAgent = TRUE
    /\ options = {}
    /\ isLeader = FALSE
    /\ AgentConstructed

\* The variables no action of SpecFollower changes.
followerFrame ==
    <<mapVars, pathVars, queueVars, planVars, electionVars, tileMessages, beliefVars, dualAgent,
      options, carriedParcel, isLeader>>

\* client.onYou: at connection, and while the initialized follower moves.
FollowerOnYou(position) ==
    /\ ~crashed
    /\ agentXY = NoPosition \/ initialized
    /\ position # agentXY /\ position # leaderPosition
    /\ map[position] # WALL
    /\ agentXY' = position
    /\ UNCHANGED <<followerFrame, initialized, hand2HandMode, leaderPosition, depot,
                   crashed>>

\* #handleCompanionPositionMessage in the follower: map.setLeaderPosition.
LeaderPositionMessage(position) ==
    /\ ~crashed
    /\ position # agentXY /\ position # leaderPosition
    /\ map[position] # WALL
    /\ leaderPosition' = position
    /\ UNCHANGED <<followerFrame, agentXY, initialized, hand2HandMode, depot, crashed>>

\* #handleHand2HandMessage.
Hand2HandMessage(behavior) ==
    /\ ~crashed
    /\ IF initialized
       THEN UNCHANGED <<initialized, hand2HandMode, depot, crashed>>
       ELSE CASE behavior = "deliver" ->
                    LET reached == checkIfCanReach(DEPOT)
                    IN  IF reached = NoPosition
                        THEN /\ crashed' = TRUE
                             /\ UNCHANGED <<initialized, hand2HandMode, depot>>
                        ELSE /\ hand2HandMode' = DELIVER
                             /\ depot' = reached
                             /\ initialized' = TRUE
                             /\ UNCHANGED crashed
              [] behavior = "gather" /\ checkIfCanReach(SPAWN) # NoPosition ->
                    /\ hand2HandMode' = GATHER
                    /\ initialized' = TRUE
                    /\ UNCHANGED <<depot, crashed>>
              [] behavior = "none" ->
                    /\ initialized' = TRUE
                    /\ UNCHANGED <<hand2HandMode, depot, crashed>>
              [] OTHER ->
                    /\ crashed' = TRUE
                    /\ UNCHANGED <<initialized, hand2HandMode, depot>>
    /\ UNCHANGED <<followerFrame, agentXY, leaderPosition>>

NextFollower ==
    \/ \E position \in FollowerStarts : FollowerOnYou(position)
    \/ \E position \in LeaderPositions : LeaderPositionMessage(position)
    \/ \E behavior \in Behaviors : Hand2HandMessage(behavior)

SpecFollower == InitFollower /\ [][NextFollower]_vars

\* C11: a follower that is not initialized and handles hand2hand{deliver}
\* takes mode DELIVER, records a depot it can reach and is initialized;
\* hand2hand{gather} gives mode GATHER and initialized; hand2hand{none} leaves
\* mode NONE and gives initialized; deliver without a reachable depot and
\* gather without a reachable spawn raise a fatal error and leave mode NONE
\* and initialized false.
C11_FollowerHand2Hand ==
    [][\A behavior \in Behaviors :
          (Hand2HandMessage(behavior) /\ ~initialized) =>
            LET fatal == crashed' /\ hand2HandMode' = NONE /\ ~initialized'
            IN  CASE behavior = "deliver" ->
                        IF Reachable(DEPOT)
                        THEN /\ hand2HandMode' = DELIVER /\ initialized' /\ ~crashed'
                             /\ depot' \in tilesOfType(DEPOT)
                             /\ ShortestDistance(agentXY, depot') # -1
                        ELSE fatal
                  [] behavior = "gather" ->
                        IF Reachable(SPAWN)
                        THEN hand2HandMode' = GATHER /\ initialized' /\ ~crashed'
                        ELSE fatal
                  [] behavior = "none" ->
                        hand2HandMode' = NONE /\ initialized' /\ ~crashed']_vars

\* The follower was told to deliver, although no path leads it to the depot,
\* and its handler threw.
C11_Witness ==
    /\ ~isLeader /\ crashed
    /\ hand2HandMode = NONE /\ ~initialized
    /\ agentXY = <<2, 0>> /\ map[<<1, 0>>] = WALL

----------------------------------------------------------------------------
(* Option generation, planner/options-generation.js.  The three generators  *)
(* as functions of what they read: the parcels of the map, the agent's      *)
(* position, #carryingParcel, #parcelsToIgnore, #deliveryTile and #depot.   *)

MAX_DISTANCE_FOR_RANDOM_MOVE == 5

\* canPickUp(parcel); a sensed parcel always has its coordinates.
canPickUp(parcel) == parcel.carriedBy = NoOne

\* Mutant: no parcel id is taken to be in the ignore list.
ignoredNever(id) == FALSE

\* agent.parcelsToIgnore.includes(id)
ignored(id) == \E k \in 1 .. Len(parcelsToIgnore) : parcelsToIgnore[k] = id

pickUpOptions(ps) ==
    [k \in 1 .. Len(ps) |-> <<"go_pick_up", ps[k].x, ps[k].y, ps[k].id>>]

\* The depot with the shortest path from the position, or NoPosition.  (The
\* first of #depotTiles wins a tie; the maps here have one depot.)
closestDepot(position) ==
    LET reached == {t \in tilesOfType(DEPOT) : findPath(position, t).found}
    IN  IF reached = {} THEN NoPosition
        ELSE CHOOSE t \in reached : \A u \in reached :
                 Len(findPath(position, t).path) <= Len(findPath(position, u).path)

\* The tiles the random move of the Normal generator draws from.
randomMoveTiles(position) ==
    LET spawn == {t \in tilesOfType(SPAWN) :
                     /\ Abs(t[1] - position[1]) <= MAX_DISTANCE_FOR_RANDOM_MOVE
                     /\ Abs(t[2] - position[2]) <= MAX_DISTANCE_FOR_RANDOM_MOVE}
        closestTiles ==
            IF spawn = {} THEN tilesOfType(SPAWN)
            ELSE {t \in spawn :
                     /\ findPath(position, t).found
                     /\ Len(findPath(position, t).path) <= MAX_DISTANCE_FOR_RANDOM_MOVE}
    IN  IF closestTiles # {} THEN closestTiles ELSE spawn

\* generateOptionNormalBehavior: the option lists it can end up with (the
\* random move makes them several).
normalOptions(read, position) ==
    LET pickUps == pickUpOptions(SelectSeq(read,
                       LAMBDA p : canPickUp(p) /\ ~ignored(p.id)))
        closest == closestDepot(position)
        dropOff == IF carryingParcel /\ closest # NoPosition
                   THEN << <<"go_drop_off", closest[1], closest[2]>> >>
                   ELSE <<>>
    IN  IF pickUps \o dropOff # <<>> THEN {pickUps \o dropOff}
        ELSE {<< <<"go_to", t[1], t[2]>> >> : t \in randomMoveTiles(position)}

\* spawn[0] of getSpawnTilesAsync() (the maps here have one spawn tile).
firstSpawnTile == CHOOSE t \in tilesOfType(SPAWN) : TRUE

\* generateOptionGatherBehavior: the options built from the parcels read.
gatherOptions(read, carrying) ==
    IF deliveryTile = NoPosition THEN <<>>
    ELSE LET pickUps == pickUpOptions(SelectSeq(read,
                            LAMBDA p : canPickUp(p)
                                /\ (p.x # deliveryTile[1] \/ p.y # deliveryTile[2])))
         IN  IF carrying
             THEN pickUps \o << <<"go_drop_off", deliveryTile[1], deliveryTile[2]>> >>
             ELSE IF pickUps = <<>>
             THEN << <<"go_to", firstSpawnTile[1], firstSpawnTile[2]>> >>
             ELSE pickUps

\* The filter of the Gather and Deliver generators where they push.
notIgnored(predicates) ==
    SelectSeq(predicates, LAMBDA o : ~(o[1] = "go_pick_up" /\ ignored(o[4])))

\* generateOptionDeliverBehavior, the first option: back to the depot.
deliverMove(position) ==
    IF ~carryingParcel /\ position # depot
    THEN << <<"go_to", depot[1], depot[2]>> >>
    ELSE <<>>

inList(list, t) == \E k \in 1 .. Len(list) : list[k] = t

\* Mutant: the search takes the first candidate and empties TILES_TO_AVOID.
findCommonDeliveryTileForgets(agentPosition, tilesToCheck, avoid) ==
    [tile |-> IF tilesToCheck = <<>> THEN NoPosition ELSE Head(tilesToCheck),
     avoid |-> <<>>]

\* Mutant: the search gives up at once.
findCommonDeliveryTileGivesUp(agentPosition, tilesToCheck, avoid) ==
    [tile |-> NoPosition, avoid |-> avoid]

\* findCommonDeliveryTile(map, agentPosition, tilesToCheck) with the value of
\* TILES_TO_AVOID it starts from: the tile found (NoPosition for null) and
\* TILES_TO_AVOID as it leaves it.
RECURSIVE findCommonDeliveryTile(_, _, _)
findCommonDeliveryTile(agentPosition, tilesToCheck, avoid) ==
    IF tilesToCheck = <<>> THEN [tile |-> NoPosition, avoid |-> avoid]
    ELSE LET tile == Head(tilesToCheck)
         IN  IF ~inList(avoid, tile) /\ findPath(agentPosition, tile).found
             THEN [tile |-> tile, avoid |-> avoid]
             ELSE LET avoided == Append(avoid, tile)
                      neighbors == SelectSeq(getNeighborTiles(tile),
                                             LAMBDA t : ~inList(avoided, t))
                  IN  findCommonDeliveryTile(agentPosition,
                                             Tail(tilesToCheck) \o neighbors, avoided)

\* Mutant: the Deliver generator takes the parcels of every tile.
deliverOptionsAnywhere(read, first) ==
    LET pickUps == pickUpOptions(SelectSeq(read, LAMBDA p : canPickUp(p)))
        dropOff == IF carryingParcel
                   THEN << <<"go_drop_off", depot[1], depot[2]>> >>
                   ELSE <<>>
    IN  first \o pickUps \o dropOff

\* The Deliver generator from its read of map.parcels on: the parcels on the
\* delivery tile, then the drop-off at the depot.
deliverOptions(read, first) ==
    LET pickUps == pickUpOptions(SelectSeq(read,
                       LAMBDA p : canPickUp(p)
                           /\ p.x = deliveryTile[1] /\ p.y = deliveryTile[2]))
        dropOff == IF carryingParcel
                   THEN << <<"go_drop_off", depot[1], depot[2]>> >>
                   ELSE <<>>
    IN  first \o pickUps \o dropOff

\* agent.deliveryTile.x is read for every parcel that can be picked up: with
\* no delivery tile that is a TypeError.
deliverThrows(read) ==
    deliveryTile = NoPosition /\ \E k \in 1 .. Len(read) : canPickUp(read[k])

----------------------------------------------------------------------------
(* Specification SpecBelief: the follower's process senses the world and    *)
(* generates options.  The listeners of a sensing event run in the order    *)
(* the Agent constructor registers them: the #carryingParcel listener,      *)
(* generateOptions, then the observer of WorldState.observerWorldState.     *)

MaxEvents == 2
MaxGenerations == 1
MaxBeliefSorts == 2
MaxCreated == 2
MaxAvoided == 2
MaxPickedUp == 1
TickMs == 1000
MaxTime == 1000

perceived(id, position, reward, carriedBy) ==
    [id |-> id, x |-> position[1], y |-> position[2], reward |-> reward,
     carriedBy |-> carriedBy]

\* What one onParcelsSensing event can report.
Sightings ==
    {<<>>,
     <<perceived("P1", <<1, 0>>, 0, NoOne)>>,
     <<perceived("P1", <<3, 0>>, 1, NoOne), perceived("P2", <<1, 0>>, 1, NoOne)>>,
     <<perceived("P2", <<1, 0>>, 1, NoOne), perceived("P2", <<3, 0>>, 1, NoOne)>>,
     <<perceived("P1", <<2, 0>>, 1, AGENT2_ID)>>}

seen(id, position) == [id |-> id, x |-> position[1], y |-> position[2]]

\* What one onAgentsSensing event can report.
AgentSightings ==
    {<<seen("a1", <<2, 1>>), seen("a1", <<3, 0>>)>>,
     <<seen(AGENT_ID, <<1, 0>>), seen("a2", <<2, 1>>)>>,
     <<seen("a2", <<1, 0>>)>>}

\* The parcelIds of the multi_pickup messages of the companion.
IgnoreLists == {<<"P1">>, <<"P2", "P1">>}

\* The tiles of the delivery_tile messages of the companion.
DeliveryTiles == {<<1, 0>>}

\* The positions onYou reports to the follower.
BeliefPositions == {<<2, 0>>}

\* The constructed follower on the open election map.
InitBelief ==
    /\ width = 5 /\ height = 2
    /\ map = ElectionTiles(ElectionWalls)
    /\ adversaryAgents = <<>>
    /\ onMapLists
    /\ followerPosition = NoPosition
    /\ startPosition = NoPosition
    /\ endPosition = NoPosition
    /\ pathResult = NotCalled
    /\ dualAgent = TRUE
    /\ options = {}
    /\ isLeader = FALSE
    /\ AgentConstructed

beliefFrame ==
    <<width, height, map, depotTiles, spawnTiles, pathVars, planVars, electionVars, tileMessages, dualAgent, options,
      agentXY, initialized, hand2HandMode, isLeader, depot, started, loopIntention>>

\* agent.push(predicate) up to its await: a predicate of the queue is
\* skipped, otherwise the intention is appended and sortIntentionQueue called.
pushOne(q, predicate) ==
    IF alreadyInQueue(q.queue, predicate) THEN q
    ELSE [queue   |-> Append(q.queue, [id |-> CopiesIn(predicate, q.created) + 1,
                                       predicate |-> predicate]),
          created |-> q.created (+) SetToBag({predicate}),
          sorts   |-> Append(q.sorts, sortCalled)]

RECURSIVE pushAll(_, _)
pushAll(q, predicates) ==
    IF predicates = <<>> THEN q
    ELSE pushAll(pushOne(q, Head(predicates)), Tail(predicates))

\* The end of each generator: options.forEach(option => agent.push(option)),
\* then await agent.sortIntentionQueue().
pushed(predicates) ==
    LET q == pushAll([queue |-> intentionQueue, created |-> intentionsCreated,
                      sorts |-> sorts], predicates)
    IN  /\ intentionQueue' = q.queue
        /\ intentionsCreated' = q.created
        /\ sorts' = Append(q.sorts, sortCalled)

\* A generator reads map.parcels: the event that triggered it (0 for the
\* interval timer) and the sensing events whose update is complete.
readOf(mode, event) ==
    [mode |-> mode, event |-> event, updates |-> eventsSensed]

\* generateOptions() as a listener, up to its first await.  The Gather
\* generator reads map.parcels at once; the Normal and the Deliver generator
\* await getCurrentPosition() first, which resolves at once when the
\* position is known and polls with setImmediate otherwise.
generateOptions(event, carrying) ==
    IF hand2HandMode = GATHER
    THEN /\ lastRead' = IF deliveryTile # NoPosition
                        THEN readOf(GATHER, event) ELSE lastRead
         /\ pushed(notIgnored(gatherOptions(parcels, carrying)))
         /\ UNCHANGED generations
    ELSE /\ generations' = Append(generations,
                [pc |-> IF agentXY # NoPosition THEN "resume" ELSE "poll",
                 mode |-> hand2HandMode, event |-> event, options |-> <<>>])
         /\ UNCHANGED <<lastRead, intentionQueue, intentionsCreated, sorts>>

\* The events are held back where the model would grow without bound.
bounded ==
    /\ Len(sorts) < MaxBeliefSorts
    /\ Len(generations) < MaxGenerations
    /\ BagCardinality(intentionsCreated) < MaxCreated
    /\ Len(tilesToAvoid) < MaxAvoided

\* client.onParcelsSensing fires.
ParcelsSensing(perceivedParcels) ==
    /\ ~crashed /\ ~microtaskPending /\ bounded
    /\ eventsSensed < MaxEvents
    /\ LET carrying == \E k \in 1 .. Len(perceivedParcels) :
                           perceivedParcels[k].carriedBy = agentId
       IN  /\ carryingParcel' = carrying
           /\ generateOptions(eventsSensed + 1, carrying)
    /\ parcels' = updateParcels(parcels, sensedParcels(perceivedParcels, now), now)
    /\ eventsSensed' = eventsSensed + 1
    /\ UNCHANGED <<beliefFrame, carriedParcel, adversaryAgents, followerPosition, leaderPosition,
                   crashed, now, parcelsToIgnore, deliveryTile, tilesToAvoid>>

\* client.onAgentsSensing fires.
AgentsSensing(perceivedAgents) ==
    /\ ~crashed /\ ~microtaskPending /\ bounded
    /\ eventsSensed < MaxEvents
    /\ generateOptions(eventsSensed + 1, carryingParcel)
    /\ leaderPosition' = sensedPosition(perceivedAgents, AGENT_ID, leaderPosition)
    /\ followerPosition' = sensedPosition(perceivedAgents, AGENT2_ID, followerPosition)
    /\ adversaryAgents' =
           updateAdversaryAgents(adversaryAgents, sensedAdversaries(perceivedAgents, now))
    /\ eventsSensed' = eventsSensed + 1
    /\ UNCHANGED <<beliefFrame, carriedParcel, crashed, now, parcels, parcelsToIgnore,
                   carryingParcel, deliveryTile, tilesToAvoid>>

\* The timer of setInterval(generateOptions, OPTION_GENERATION_INTERVAL).
intervalElapsed ==
    /\ ~crashed /\ ~microtaskPending
    /\ generateOptions(0, carryingParcel)
    /\ UNCHANGED <<beliefFrame, carriedParcel, adversaryAgents, followerPosition, leaderPosition,
                   crashed, now, parcels, parcelsToIgnore, carryingParcel,
                   deliveryTile, tilesToAvoid, eventsSensed>>

IntervalElapsed == bounded /\ intervalElapsed

\* The Deliver generator reads map.parcels and goes on to its pushes.
deliverRead(g, first) ==
    /\ lastRead' = readOf(DELIVER, generations[g].event)
    /\ generations' = RemoveAt(generations, g)
    /\ IF deliverThrows(parcels)
       THEN /\ crashed' = TRUE
            /\ UNCHANGED <<intentionQueue, intentionsCreated, sorts>>
       ELSE /\ pushed(notIgnored(deliverOptions(parcels, first)))
            /\ UNCHANGED crashed

\* getCurrentPosition() has returned: the Normal generator runs to its end,
\* the Deliver generator to its read of map.parcels or, when it has just
\* found a delivery tile, to the message it sends to the companion.
Resume(g) ==
    /\ ~crashed
    /\ \/ generations[g].pc = "resume"
       \/ generations[g].pc = "poll" /\ ~microtaskPending /\ agentXY # NoPosition
    /\ IF generations[g].mode = DELIVER
       THEN IF deliveryTile = NoPosition
            THEN LET found == findCommonDeliveryTile(depot, getNeighborTiles(depot),
                                                     Append(tilesToAvoid, depot))
                 IN  /\ tilesToAvoid' = found.avoid
                     /\ deliveryTile' = found.tile
                     /\ IF found.tile # NoPosition
                        THEN /\ generations' =
                                    [generations EXCEPT ![g].pc = "say",
                                                        ![g].options = deliverMove(agentXY)]
                             /\ UNCHANGED <<lastRead, crashed, intentionQueue,
                                            intentionsCreated, sorts>>
                        ELSE deliverRead(g, deliverMove(agentXY))
            ELSE /\ deliverRead(g, deliverMove(agentXY))
                 /\ UNCHANGED <<tilesToAvoid, deliveryTile>>
       ELSE /\ \E predicates \in normalOptions(parcels, agentXY) : pushed(predicates)
            /\ lastRead' = readOf(NONE, generations[g].event)
            /\ generations' = RemoveAt(generations, g)
            /\ UNCHANGED <<tilesToAvoid, deliveryTile, crashed>>
    /\ UNCHANGED <<beliefFrame, carriedParcel, adversaryAgents, followerPosition, leaderPosition,
                   now, parcels, parcelsToIgnore, carryingParcel, eventsSensed>>

\* The companion has acknowledged the delivery_tile message.
DeliverSaid(g) ==
    /\ ~crashed /\ ~microtaskPending
    /\ generations[g].pc = "say"
    /\ deliverRead(g, generations[g].options)
    /\ UNCHANGED <<beliefFrame, carriedParcel, adversaryAgents, followerPosition, leaderPosition,
                   now, parcels, parcelsToIgnore, carryingParcel, deliveryTile,
                   tilesToAvoid, eventsSensed>>

\* #handleParcelsToIgnoreMessage, action multi_pickup.
MultiPickupMessage(parcelIds) ==
    /\ ~crashed /\ ~microtaskPending
    /\ dualAgent
    /\ parcelsToIgnore' = parcelIds
    /\ UNCHANGED <<beliefFrame, carriedParcel, adversaryAgents, followerPosition, leaderPosition,
                   crashed, intentionQueue, intentionsCreated, sorts, now, parcels,
                   carryingParcel, deliveryTile, tilesToAvoid, generations, lastRead,
                   eventsSensed>>

\* The body of #handleDeliveryTileMessage for a delivery_tile message.
handleDeliveryTileMessage(status, tile) ==
    IF status = "set"
    THEN IF hand2HandMode # GATHER
         THEN crashed' = TRUE /\ UNCHANGED deliveryTile
         ELSE deliveryTile' = tile /\ UNCHANGED crashed
    ELSE IF hand2HandMode # DELIVER
         THEN crashed' = TRUE /\ UNCHANGED deliveryTile
         ELSE deliveryTile' = NoPosition /\ UNCHANGED crashed

\* #handleDeliveryTileMessage; it listens once a hand2hand mode is entered.
DeliveryTileMessage(status, tile) ==
    /\ ~crashed /\ ~microtaskPending
    /\ hand2HandMode # NONE
    /\ handleDeliveryTileMessage(status, tile)
    /\ UNCHANGED <<beliefFrame, carriedParcel, adversaryAgents, followerPosition, leaderPosition,
                   intentionQueue, intentionsCreated, sorts, now, parcels,
                   parcelsToIgnore, carryingParcel, tilesToAvoid, generations,
                   lastRead, eventsSensed>>

\* agent.pickedUpParcel(parcelId), called by the GoPickUp plan of the intention
\* the agent is achieving.
ParcelPickedUp(parcelId) ==
    /\ ~crashed /\ ~microtaskPending
    /\ carriedParcel < MaxPickedUp
    /\ parcels' = parcelPickedUp(parcels, parcelId)
    /\ carriedParcel' = carriedParcel + 1
    /\ UNCHANGED <<beliefFrame, adversaryAgents, followerPosition, leaderPosition,
                   crashed, intentionQueue, intentionsCreated, sorts, now,
                   parcelsToIgnore, carryingParcel, deliveryTile, tilesToAvoid,
                   generations, lastRead, eventsSensed>>

\* Date.now() moves on.
Tick ==
    /\ ~crashed /\ ~microtaskPending
    /\ now < MaxTime
    /\ now' = now + TickMs
    /\ UNCHANGED <<beliefFrame, carriedParcel, adversaryAgents, followerPosition, leaderPosition,
                   crashed, intentionQueue, intentionsCreated, sorts, parcels,
                   parcelsToIgnore, carryingParcel, deliveryTile, tilesToAvoid,
                   generations, lastRead, eventsSensed>>

NextBelief ==
    \/ \E position \in BeliefPositions : ~microtaskPending /\ FollowerOnYou(position)
    \/ \E behavior \in Behaviors : ~microtaskPending /\ Hand2HandMessage(behavior)
    \/ \E perceivedParcels \in Sightings : ParcelsSensing(perceivedParcels)
    \/ \E perceivedAgents \in AgentSightings : AgentsSensing(perceivedAgents)
    \/ IntervalElapsed
    \/ \E g \in 1 .. Len(generations) : Resume(g)
    \/ \E g \in 1 .. Len(generations) : DeliverSaid(g)
    \/ \E parcelIds \in IgnoreLists : MultiPickupMessage(parcelIds)
    \/ \E status \in {"set", "error"}, tile \in DeliveryTiles :
           DeliveryTileMessage(status, tile)
    \/ \E parcelId \in {"P1", "P2"} : ParcelPickedUp(parcelId)
    \/ Tick
    \/ \E s \in 1 .. Len(sorts) : ~crashed /\ ScorePickUps(s)
    \/ \E s \in 1 .. Len(sorts) : ~crashed /\ SortPickUps(s)
    \/ \E s \in 1 .. Len(sorts) : ~crashed /\ RebuildQueue(s)

SpecBelief == InitBelief /\ [][NextBelief]_vars

\* The predicates a step has pushed as new intentions.
newlyPushed ==
    {predicate \in BagToSet(intentionsCreated') :
        CopiesIn(predicate, intentionsCreated') > CopiesIn(predicate, intentionsCreated)}

\* C12: parcelsToIgnore is the parcelIds of the latest multi_pickup message
\* (empty before the first one): a message replaces the list, nothing else
\* changes it; and whatever the mode, no step pushes a go_pick_up intention
\* for a parcel whose id is in parcelsToIgnore.
C12_IgnorePropagation ==
    /\ [](parcelsToIgnore \in IgnoreLists \cup {<<>>})
    /\ [][/\ \A parcelIds \in IgnoreLists :
                 MultiPickupMessage(parcelIds) => parcelsToIgnore' = parcelIds
          /\ (\E parcelIds \in IgnoreLists : MultiPickupMessage(parcelIds))
                 \/ parcelsToIgnore' = parcelsToIgnore
          /\ \A predicate \in newlyPushed :
                 predicate[1] = "go_pick_up" =>
                     \A k \in 1 .. Len(parcelsToIgnore) :
                         parcelsToIgnore[k] # predicate[4]]_vars

\* After multi_pickup{[P2, P1]} one sensing event has reported P1 and P2, the
\* generation it triggered has read them, and no go_pick_up was queued.
C12_Witness ==
    /\ parcelsToIgnore = <<"P2", "P1">>
    /\ eventsSensed = 1 /\ Len(parcels) = 2
    /\ lastRead = [mode |-> NONE, event |-> 1, updates |-> 1]
    /\ intentionsCreated # EmptyBag
    /\ \A predicate \in BagToSet(intentionsCreated) : predicate[1] # "go_pick_up"

\* C15: at every moment every parcel of the map is carried by nobody and is
\* not expired with respect to the current time and the decay interval.
C15_StoredParcelsFresh ==
    \A k \in 1 .. Len(parcels) :
        parcels[k].carriedBy = NoOne /\ ~isExpired(parcels[k], now)

\* C16: no two entries of parcels share an id, and no two entries of
\* adversaryAgents share an id.
C16_NoDuplicateIds ==
    /\ \A i, j \in 1 .. Len(parcels) : i # j => parcels[i].id # parcels[j].id
    /\ \A i, j \in 1 .. Len(adversaryAgents) :
           i # j => adversaryAgents[i].id # adversaryAgents[j].id

\* Two sensing events have reported P2 twice in one list and a1 twice in one
\* list; nothing was picked up.
C16_Witness ==
    /\ eventsSensed = 2 /\ carriedParcel = 0
    /\ Len(parcels) = 1 /\ parcels[1].id = "P2"
    /\ Len(adversaryAgents) = 1 /\ adversaryAgents[1].id = "a1"

\* The tile of the companion as this process knows it.
companionTile == IF isLeader THEN followerPosition ELSE leaderPosition

adversaryAt(t) ==
    \E k \in 1 .. Len(adversaryAgents) :
        adversaryAgents[k].x = t[1] /\ adversaryAgents[k].y = t[2]

\* C17: getWalkableTiles(false) is exactly the depot, spawn and other tiles
\* that hold no known adversary and are not the companion's tile, in the
\* leader's and in the follower's process; getWalkableTiles(true) only
\* leaves out the test on the companion's tile.
C17_WalkableTiles ==
    LET typed == {t \in DOMAIN map : map[t] \in {DEPOT, SPAWN, OTHERTILE}}
    IN  /\ getWalkableTilesWith(FALSE) =
               {t \in typed : ~adversaryAt(t) /\ t # companionTile}
        /\ getWalkableTilesWith(TRUE) = {t \in typed : ~adversaryAt(t)}

\* C18: when an option generation reads map.parcels, the map update of the
\* sensing event that triggered it is complete.
C18_UpdateBeforeRead == lastRead.updates >= lastRead.event

\* A Deliver generation takes its last step, the one that reads map.parcels
\* and pushes, without a TypeError.
deliverPushes(g) ==
    /\ generations[g].mode = DELIVER
    /\ Resume(g) \/ DeliverSaid(g)
    /\ Len(generations') < Len(generations)
    /\ ~crashed'

queued(queue, predicate) ==
    \E j \in 1 .. Len(queue) : queue[j].predicate = predicate

onTile(p, tile) == p.x = tile[1] /\ p.y = tile[2]

\* The step runs the Gather generator: a sensing event or the timer in
\* Gather mode (the generations in flight are those of the other generators).
gatherGenerates == hand2HandMode = GATHER /\ generations' = generations

\* Every new go_pick_up intention of the step is for a tile that satisfies
\* the condition.
pickUpsOnlyWhere(allowed(_)) ==
    \A predicate \in newlyPushed :
        predicate[1] = "go_pick_up" => allowed(<<predicate[2], predicate[3]>>)

deliverEndsAwayFromDepot(g) ==
    /\ generations[g].mode = DELIVER
    /\ Resume(g) \/ DeliverSaid(g)
    /\ Len(generations') < Len(generations)
    /\ IF generations[g].pc = "say" THEN generations[g].options # <<>>
       ELSE ~carryingParcel /\ agentXY # depot

\* C27: a Deliver generation of an agent that carries nothing and is not at
\* its depot leaves go_to(depot.x, depot.y) in the queue, with or without a
\* delivery tile.
C27_DeliverGoesToDepot ==
    [][\A g \in 1 .. Len(generations) :
           deliverEndsAwayFromDepot(g) =>
               queued(intentionQueue', <<"go_to", depot[1], depot[2]>>)]_vars

\* C27, the case it names: the search of the generation itself has failed.
C27_GoesToDepotAfterFailedSearch ==
    [][\A g \in 1 .. Len(generations) :
           (deliverEndsAwayFromDepot(g) /\ Resume(g) /\ deliveryTile' = NoPosition) =>
               queued(intentionQueue', <<"go_to", depot[1], depot[2]>>)]_vars

\* The list `after` is the list `before` with entries appended.
grownFrom(before, after) ==
    Len(after) >= Len(before) /\ SubSeq(after, 1, Len(before)) = before

----------------------------------------------------------------------------
(* Specification SpecDelivery: the follower as the DELIVER agent of a        *)
(* hand-to-hand team negotiates the delivery tile.  The follower connects,   *)
(* learns where the leader is, is told to deliver, and its option            *)
(* generations look for the common delivery tile; the companion may answer   *)
(* delivery_tile{error}.  The corridor is open, or walled at (3,0) with the  *)
(* leader beyond the wall.                                                   *)

DeliveryMaps ==
    {ElectionTiles(ElectionWalls), ElectionTiles(ElectionWalls \cup {<<3, 0>>})}

\* The positions onYou reports to the follower.
DeliveryStarts == {<<2, 0>>, <<0, 0>>}

\* The positions the companion_position messages of the leader carry.
GatherPositions == {<<4, 0>>}

InitDelivery ==
    /\ width = 5 /\ height = 2
    /\ map \in DeliveryMaps
    /\ adversaryAgents = <<>>
    /\ onMapLists
    /\ followerPosition = NoPosition
    /\ startPosition = NoPosition
    /\ endPosition = NoPosition
    /\ pathResult = NotCalled
    /\ dualAgent = TRUE
    /\ options = {}
    /\ isLeader = FALSE
    /\ AgentConstructed

NextDelivery ==
    \/ \E position \in DeliveryStarts : ~microtaskPending /\ FollowerOnYou(position)
    \/ \E position \in GatherPositions :
          ~microtaskPending /\ LeaderPositionMessage(position)
    \/ ~microtaskPending /\ Hand2HandMessage("deliver")
    \/ IntervalElapsed
    \/ \E g \in 1 .. Len(generations) : Resume(g)
    \/ \E g \in 1 .. Len(generations) : DeliverSaid(g)
    \/ \E tile \in DeliveryTiles : DeliveryTileMessage("error", tile)
    \/ \E s \in 1 .. Len(sorts) : ~crashed /\ ScorePickUps(s)
    \/ \E s \in 1 .. Len(sorts) : ~crashed /\ SortPickUps(s)
    \/ \E s \in 1 .. Len(sorts) : ~crashed /\ RebuildQueue(s)

SpecDelivery == InitDelivery /\ [][NextDelivery]_vars

\* C24: the delivery tile the DELIVER agent has found is reachable by both
\* agents: a chain of walkable tiles leads to it from the DELIVER agent's
\* depot and from the position of the GATHER agent.
C24_DeliveryTileReachableByBoth ==
    (/\ hand2HandMode = DELIVER
     /\ deliveryTile # NoPosition
     /\ leaderPosition # NoPosition)
        => /\ ShortestDistance(depot, deliveryTile) # -1
           /\ ShortestDistance(leaderPosition, deliveryTile) # -1

\* A tile findCommonDeliveryTile can come up with: walkable, reached from the
\* depot and not in the list of tiles to avoid.
commonTiles(avoid) ==
    {t \in getWalkableTiles :
        /\ ShortestDistance(depot, t) # -1
        /\ t # depot
        /\ \A k \in 1 .. Len(avoid) : avoid[k] # t}

----------------------------------------------------------------------------
(* Specification SpecRetry: the follower as DELIVER agent whose depot has    *)
(* one neighbour, (1,0).  Once an adversary is sensed on that tile every     *)
(* search for the common delivery tile fails, generation after generation.  *)

\* config.js: parseInt(process.env.MAX_RETRY_COMMON_DELIVERY) || 10.
MAX_RETRY_COMMON_DELIVERY == 10

\* Number of searches after which the timer is held back.
MaxSearches == 11

\* Every search pushes the depot on TILES_TO_AVOID before it starts, and
\* nothing else does: the searches started so far.  No delivery_tile{error}
\* arrives here, so while the delivery tile is null each of them has failed.
failedSearches ==
    Cardinality({k \in 1 .. Len(tilesToAvoid) : tilesToAvoid[k] = depot})

IntervalElapsedAgain ==
    /\ Len(sorts) < MaxBeliefSorts
    /\ Len(generations) < MaxGenerations
    /\ BagCardinality(intentionsCreated) < MaxCreated
    /\ failedSearches < MaxSearches
    /\ intervalElapsed

NextRetry ==
    \/ \E position \in BeliefPositions : ~microtaskPending /\ FollowerOnYou(position)
    \/ ~microtaskPending /\ Hand2HandMessage("deliver")
    \/ AgentsSensing(<<seen("a2", <<1, 0>>)>>)
    \/ IntervalElapsedAgain
    \/ \E g \in 1 .. Len(generations) : Resume(g)
    \/ \E g \in 1 .. Len(generations) : DeliverSaid(g)
    \/ \E s \in 1 .. Len(sorts) : ~crashed /\ ScorePickUps(s)
    \/ \E s \in 1 .. Len(sorts) : ~crashed /\ SortPickUps(s)
    \/ \E s \in 1 .. Len(sorts) : ~crashed /\ RebuildQueue(s)

SpecRetry == InitBelief /\ [][NextRetry]_vars

\* C39: while the delivery tile is unset the DELIVER agent starts a search
\* only while fewer than MAX_RETRY_COMMON_DELIVERY earlier searches have
\* failed: it never has more failed searches than that.
C39_SearchesBounded ==
    (hand2HandMode = DELIVER /\ deliveryTile = NoPosition)
        => failedSearches <= MAX_RETRY_COMMON_DELIVERY

----------------------------------------------------------------------------
(* Specification SpecTiles: the WorldMap from its construction on.  The      *)
(* observer's onMap handler populates it from the raw tiles the server       *)
(* sends, once per connection; updateTile replaces single tiles.             *)

TilesWidth == 2
TilesHeight == 2

\* The type codes of the raw tiles: 0 to 3 are known to the switch of onMap.
RawTypes == 0 .. 4

\* The switch of the onMap handler.
typeOfRaw(code) ==
    CASE code = 0 -> WALL
      [] code = 1 -> SPAWN
      [] code = 2 -> DEPOT
      [] code = 3 -> OTHERTILE

\* Tile.isValidTile(width, height)
isValidTile(tile, w, h) == tile.x >= 0 /\ tile.y >= 0 /\ tile.x < w /\ tile.y < h

\* The tiles updateTile is called with, some of them outside the map.
TilesGiven ==
    [x : -1 .. TilesWidth, y : 0 .. TilesHeight, type : {WALL, SPAWN, DEPOT, OTHERTILE}]

\* The WorldMap constructor: no size, no tiles.
InitTiles ==
    /\ width = 0 /\ height = 0
    /\ map = <<>>
    /\ onMapLists
    /\ adversaryAgents = <<>>
    /\ followerPosition = NoPosition
    /\ startPosition = NoPosition
    /\ endPosition = NoPosition
    /\ pathResult = NotCalled
    /\ dualAgent = FALSE
    /\ options = {}
    /\ isLeader = TRUE
    /\ AgentConstructed

tilesFrame ==
    <<pathVars, agentVars, queueVars, planVars, electionVars, tileMessages, isLeader,
      leaderPosition, depot, beliefVars>>

\* client.onMap((width, height, rawTiles) => ...): a type code the switch
\* does not know throws before the map is set.
OnMap(w, h, rawTiles) ==
    /\ ~crashed
    /\ width = 0
    /\ IF \E t \in Coordinates(w, h) : rawTiles[t] \notin 0 .. 3
       THEN /\ crashed' = TRUE
            /\ UNCHANGED <<width, height, map, depotTiles, spawnTiles>>
       ELSE LET tiles == [t \in Coordinates(w, h) |-> typeOfRaw(rawTiles[t])]
            IN  /\ width' = w /\ height' = h
                /\ map' = tiles
                /\ spawnTiles' = tilesPushed(w, h, tiles, SPAWN)
                /\ depotTiles' = tilesPushed(w, h, tiles, DEPOT)
                /\ UNCHANGED crashed
    /\ UNCHANGED <<tilesFrame, adversaryAgents, followerPosition>>

\* WorldMap.updateTile(tile)
UpdateTile(tile) ==
    /\ ~crashed
    /\ IF isValidTile(tile, width, height)
       THEN map' = [map EXCEPT ![<<tile.x, tile.y>>] = tile.type]
       ELSE UNCHANGED map
    /\ UNCHANGED <<tilesFrame, width, height, depotTiles, spawnTiles, adversaryAgents,
                   followerPosition, crashed>>

NextTiles ==
    \/ \E rawTiles \in [Coordinates(TilesWidth, TilesHeight) -> RawTypes] :
           OnMap(TilesWidth, TilesHeight, rawTiles)
    \/ \E tile \in TilesGiven : UpdateTile(tile)

SpecTiles == InitTiles /\ [][NextTiles]_vars

\* C28: every tile of the map of type Spawn is in spawnTiles and every tile
\* of type Depot is in depotTiles, after onMap and after every updateTile.
C28_TypedTilesListed ==
    \A t \in DOMAIN map :
        /\ map[t] = SPAWN => inList(spawnTiles, t)
        /\ map[t] = DEPOT => inList(depotTiles, t)

\* C28 for onMap alone: the step that populates the map leaves the lists
\* holding exactly the Spawn and the Depot tiles.
C28_OnMapListsTypedTiles ==
    [][width = 0 /\ width' # 0 =>
           \A t \in DOMAIN map' :
               /\ map'[t] = SPAWN <=> inList(spawnTiles', t)
               /\ map'[t] = DEPOT <=> inList(depotTiles', t)]_vars

----------------------------------------------------------------------------
(* Specification SpecHandover: the leader's process from its election to the *)
(* delivery tile.  The companion that the first hand2hand message has made   *)
(* the DELIVER agent finds a delivery tile and says delivery_tile{set}; the  *)
(* message and the acknowledgement of the leader's own say reach the leader  *)
(* as separate events.  Messages are delivered in order and none is lost.    *)

handoverFrame ==
    <<mapVars, pathVars, agentVars, queueVars, planVars, electionVars, isLeader,
      leaderPosition, depot, now, parcels, parcelsToIgnore, carryingParcel,
      tilesToAvoid, generations, lastRead, eventsSensed>>

\* generateOptionDeliverBehavior of the companion: it was told to deliver, has
\* found the tile and sends delivery_tile{set} (once: its deliveryTile is set).
DeliveryTileSaid(tile) ==
    /\ said # <<>> /\ said[1] = "deliver"
    /\ tileMessages = <<>>
    /\ tileMessages' = <<[tile |-> tile, arrived |-> FALSE]>>
    /\ UNCHANGED <<handoverFrame, deliveryTile, crashed>>

\* The message reaches the leader's socket: the listeners registered with
\* client.onMsg run; #handleDeliveryTileMessage is among them once the
\* election handler has passed its emitSay and registered it.
DeliveryTileArrives ==
    /\ ~electionChecking
    /\ tileMessages # <<>> /\ ~tileMessages[1].arrived
    /\ tileMessages' = [tileMessages EXCEPT ![1].arrived = TRUE]
    /\ IF hand2HandMode # NONE
       THEN handleDeliveryTileMessage("set", tileMessages[1].tile)
       ELSE UNCHANGED <<deliveryTile, crashed>>
    /\ UNCHANGED handoverFrame

NextHandover ==
    \/ ~crashed /\ LeaderOnYou
    \/ \E position \in FollowerPositions : ~crashed /\ CompanionPosition(position)
    \/ ~crashed /\ Elect
    \/ ~crashed /\ SayAcknowledged
    \/ \E tile \in DeliveryTiles : ~crashed /\ DeliveryTileSaid(tile)
    \/ ~crashed /\ DeliveryTileArrives

\* Every handler runs on from its checks to its say (no handler is checking
\* for ever), every say is acknowledged, every message arrives.
SpecHandover ==
    /\ InitElection
    /\ [][NextHandover]_vars
    /\ []<>(~electionChecking)
    /\ WF_vars(~crashed /\ SayAcknowledged)
    /\ WF_vars(~crashed /\ DeliveryTileArrives)

\* C31: once the DELIVER agent has said its delivery tile, the GATHER agent
\* eventually holds that tile as its deliveryTile, whichever of the message
\* and the acknowledgement of the leader's hand2hand say comes first.
C31_GatherAgentLearnsTile ==
    \A tile \in DeliveryTiles :
        (tileMessages # <<>> /\ tileMessages[1].tile = tile)
            ~> (hand2HandMode = GATHER /\ deliveryTile = tile)

====
